---- MODULE Spec2Model ----
(***************************************************************************)
(* Orchestration core of the email pipeline: the Decision Router           *)
(* (aubs/src/action_router.py), the Graph Builder (aubs/src/dag_builder.py)*)
(* and the Execution Submitter / Monitor (aubs/src/orchestrator.py).       *)
(*                                                                         *)
(* Conventions.                                                            *)
(*  - A confidence is a float in [0,1]; it is modelled in tenths (0..10).  *)
(*  - A dictionary key that may be missing is a sequence of length 0 or 1: *)
(*    <<>> is "key absent", <<v>> is "key present with value v";           *)
(*    Get(opt, d) is dict.get(key, d).                                     *)
(*  - A string that is searched is a sequence of one-character strings.    *)
(***************************************************************************)
EXTENDS Integers, Sequences, FiniteSets, TLC

\* ------------------------------------------------------------------------
\* Bounds of the model
\* ------------------------------------------------------------------------
MaxRecs == 2          \* longest recommendation list
MaxLen == 2           \* longest synthesis narrative
RouteCalls == 2       \* calls of route on one synthesis output
MaxAttachments == 2   \* most attachments of one email
MaxExecs == 2         \* executions the ledger comes to hold
MaxLedger == 3        \* executions of a ledger that is listed

\* ------------------------------------------------------------------------
\* Strings
\* ------------------------------------------------------------------------
Chars == {"a", "b", "B"}

\* str.lower(), one character
LowerChar(c) == IF c = "B" THEN "b" ELSE c

\* str.lower()
Lower(s) == [i \in 1..Len(s) |-> LowerChar(s[i])]

\* Python's `kw in s` for strings: kw is a contiguous slice of s
\* (the empty string is in every string)
Contains(kw, s) ==
    \E i \in 0..(Len(s) - Len(kw)) : SubSeq(s, i + 1, i + Len(kw)) = kw

RECURSIVE LStrip(_)
LStrip(s) == IF s # <<>> /\ Head(s) = " " THEN LStrip(Tail(s)) ELSE s

RECURSIVE RStrip(_)
RStrip(s) ==
    IF s # <<>> /\ s[Len(s)] = " " THEN RStrip(SubSeq(s, 1, Len(s) - 1)) ELSE s

\* str.strip()
Strip(s) == RStrip(LStrip(s))

\* str.split(","): always at least one piece
RECURSIVE SplitComma(_)
SplitComma(s) ==
    IF \E i \in 1..Len(s) : s[i] = ","
    THEN LET i == CHOOSE k \in 1..Len(s) :
                      s[k] = "," /\ \A j \in 1..(k - 1) : s[j] # ","
         IN <<SubSeq(s, 1, i - 1)>> \o SplitComma(SubSeq(s, i + 1, Len(s)))
    ELSE <<s>>

\* dict.get(key, default)
Get(opt, default) == IF opt = <<>> THEN default ELSE opt[1]

\* ------------------------------------------------------------------------
\* Settings (aubs/src/config.py)
\* ------------------------------------------------------------------------
\* AUBSSettings.validate_keywords: the configured string is lower-cased and
\* stripped when the settings are constructed
validate_keywords(v) == Strip([i \in 1..Len(v) |-> LowerChar(v[i])])

\* AUBSSettings.get_high_risk_keywords
get_high_risk_keywords(high_risk_keywords) ==
    LET parts == SplitComma(high_risk_keywords)
    IN [i \in 1..Len(parts) |-> Strip(parts[i])]

\* ------------------------------------------------------------------------
\* Decision Router (aubs/src/action_router.py)
\* ------------------------------------------------------------------------
RiskLevels == {"low", "medium", "high", "critical"}

KnownActionTypes == {"create_task", "schedule_event", "send_notification"}

\* ActionRouter._send_to_review_queue: one POST to the review queue; when it
\* fails (review_answer is "error") the error is logged and raised again
send_to_review_queue(review_answer) ==
    [posts |-> 1, raised |-> review_answer = "error"]

\* Variant of _create_human_review_action that posts again after a failure
create_human_review_action_retry(reason, review_answer) ==
    LET sent == send_to_review_queue(review_answer)
    IN [action |-> [action_type |-> "human_review", confidence |-> 0,
                    status |-> "pending", result |-> "none",
                    reason |-> reason, rec |-> 0],
        posts |-> IF sent.raised THEN sent.posts + 1 ELSE sent.posts,
        handoff_failed |-> sent.raised]

\* ActionRouter._create_human_review_action: the Action of kind human_review
\* (confidence 0.0, status pending) and its hand-off to the review queue,
\* which is called once inside a try whose except clause only logs.
\* Returns the Action, the POSTs made and whether the hand-off failed
create_human_review_action(reason, review_answer) ==
    LET action == [action_type |-> "human_review", confidence |-> 0,
                   status |-> "pending", result |-> "none",
                   reason |-> reason, rec |-> 0]
        sent == send_to_review_queue(review_answer)
    IN [action |-> action, posts |-> sent.posts, handoff_failed |-> sent.raised]

\* Variant of the dispatchers that calls the tool whatever its enable flag says
dispatch_flag_ignored(kind, enabled, confidence, answer, idx) ==
    [action_type |-> kind, confidence |-> confidence,
     status |-> IF answer = "ok" THEN "completed" ELSE "failed",
     result |-> answer,
     reason |-> <<>>, rec |-> idx]

\* Variant of the dispatchers whose except clause does not touch the Action
dispatch_error_unrecorded(kind, enabled, confidence, answer, idx) ==
    [action_type |-> kind, confidence |-> confidence,
     status |-> IF enabled /\ answer = "ok" THEN "completed" ELSE "pending",
     result |-> IF enabled /\ answer = "ok" THEN answer ELSE "none",
     reason |-> <<>>, rec |-> idx]

\* The part shared by the three dispatchers: the Action with the given
\* confidence; if the tool is enabled it is called and the Action becomes
\* completed (tool answered) or failed (tool raised); if the tool is disabled
\* the Action stays pending without a result
dispatch(kind, enabled, confidence, answer, idx) ==
    [action_type |-> kind, confidence |-> confidence,
     status |-> IF ~enabled THEN "pending"
                ELSE IF answer = "ok" THEN "completed" ELSE "failed",
     result |-> IF ~enabled THEN "none" ELSE answer,
     reason |-> <<>>, rec |-> idx]

create_task_action(settings, confidence, answer, idx) ==
    dispatch("create_task", settings.mcp_todoist_enabled, confidence, answer, idx)

create_calendar_action(settings, confidence, answer, idx) ==
    dispatch("schedule_event", settings.mcp_gcal_enabled, confidence, answer, idx)

create_notification_action(settings, confidence, answer, idx) ==
    dispatch("send_notification", settings.mcp_twilio_enabled, confidence, answer, idx)

\* Variant of _detect_high_risk that forgets .lower() on the narrative
detect_high_risk_cased(keywords, context_output) ==
    LET synthesis == Get(context_output.synthesis, <<>>)
    IN \E k \in 1..Len(keywords) : Contains(keywords[k], synthesis)

\* ActionRouter._detect_high_risk: some configured keyword is in the
\* lower-cased narrative
detect_high_risk(keywords, context_output) ==
    LET synthesis == Lower(Get(context_output.synthesis, <<>>))
    IN \E k \in 1..Len(keywords) : Contains(keywords[k], synthesis)

\* Variant of the loop body that gives every Action the synthesis confidence
handle_recommendation_synth_conf(settings, recommendation, confidence, answer, idx) ==
    LET action_type == Get(recommendation.action_type, "None")
        action ==
            IF action_type = "create_task"
            THEN create_task_action(settings, confidence, answer, idx)
            ELSE IF action_type = "schedule_event"
            THEN create_calendar_action(settings, confidence, answer, idx)
            ELSE create_notification_action(settings, confidence, answer, idx)
    IN IF action_type \in KnownActionTypes
       THEN [actions |-> <<action>>,
             dispatched |-> <<action_type>>,
             tool_calls |-> IF action.result = "none" THEN <<>> ELSE <<action_type>>,
             raised |-> FALSE]
       ELSE [actions |-> <<>>, dispatched |-> <<>>, tool_calls |-> <<>>,
             raised |-> FALSE]

\* Variant of the loop body whose final else branch creates a task
handle_recommendation_default_task(settings, recommendation, confidence, answer, idx) ==
    LET action_type == Get(recommendation.action_type, "None")
        action_confidence == Get(recommendation.confidence, confidence)
        action ==
            IF action_type = "schedule_event"
            THEN create_calendar_action(settings, action_confidence, answer, idx)
            ELSE IF action_type = "send_notification"
            THEN create_notification_action(settings, action_confidence, answer, idx)
            ELSE create_task_action(settings, action_confidence, answer, idx)
    IN [actions |-> <<action>>,
        dispatched |-> <<action.action_type>>,
        tool_calls |-> IF action.result = "none" THEN <<>>
                       ELSE <<action.action_type>>,
        raised |-> FALSE]

\* Variant of the loop body whose dispatchers let a tool error escape: the
\* except clause of route then drops the Action
handle_recommendation_drop_failed(settings, recommendation, confidence, answer, idx) ==
    LET action_type == Get(recommendation.action_type, "None")
        action_confidence == Get(recommendation.confidence, confidence)
        action ==
            IF action_type = "create_task"
            THEN create_task_action(settings, action_confidence, answer, idx)
            ELSE IF action_type = "schedule_event"
            THEN create_calendar_action(settings, action_confidence, answer, idx)
            ELSE create_notification_action(settings, action_confidence, answer, idx)
    IN IF action_type \in KnownActionTypes
       THEN [actions |-> IF action.status = "failed" THEN <<>> ELSE <<action>>,
             dispatched |-> <<action_type>>,
             tool_calls |-> IF action.result = "none" THEN <<>> ELSE <<action_type>>,
             raised |-> FALSE]
       ELSE [actions |-> <<>>, dispatched |-> <<>>, tool_calls |-> <<>>,
             raised |-> FALSE]

\* One iteration of the loop of route (lines 105-144): the Actions it appends,
\* the dispatcher it enters, the external tool it calls and whether the
\* iteration raises.  The three recommendation.get(...) of lines 106-108
\* stand before the try: they raise on a recommendation that is not a
\* mapping.  A dispatcher reads data.get(...) while it builds the Action:
\* on data that is not a mapping it raises before any tool is called, and
\* the except clause of the loop (lines 137-142) logs and goes on
handle_recommendation(settings, recommendation, confidence, answer, idx) ==
    LET action_type == Get(recommendation.action_type, "None")
        action_confidence == Get(recommendation.confidence, confidence)
        action ==
            IF action_type = "create_task"
            THEN create_task_action(settings, action_confidence, answer, idx)
            ELSE IF action_type = "schedule_event"
            THEN create_calendar_action(settings, action_confidence, answer, idx)
            ELSE create_notification_action(settings, action_confidence, answer, idx)
    IN IF ~recommendation.is_mapping
       THEN [actions |-> <<>>, dispatched |-> <<>>, tool_calls |-> <<>>,
             raised |-> TRUE]
       ELSE IF action_type \in KnownActionTypes
               /\ ~recommendation.data_is_mapping
       THEN [actions |-> <<>>, dispatched |-> <<action_type>>,
             tool_calls |-> <<>>, raised |-> FALSE]
       ELSE IF action_type \in KnownActionTypes
       THEN [actions |-> <<action>>,
             dispatched |-> <<action_type>>,
             tool_calls |-> IF action.result = "none" THEN <<>> ELSE <<action_type>>,
             raised |-> FALSE]
       ELSE [actions |-> <<>>, dispatched |-> <<>>, tool_calls |-> <<>>,
             raised |-> FALSE]

\* The loop of route over the recommendations, from position idx on
RECURSIVE route_recommendations(_, _, _, _, _)
route_recommendations(settings, recommendations, confidence, answers, idx) ==
    IF idx > Len(recommendations)
    THEN [actions |-> <<>>, dispatched |-> <<>>, tool_calls |-> <<>>,
          raised |-> FALSE]
    ELSE LET step == handle_recommendation(settings, recommendations[idx],
                                           confidence, answers[idx], idx)
             rest == route_recommendations(settings, recommendations,
                                           confidence, answers, idx + 1)
         IN IF step.raised
            THEN step
            ELSE [actions |-> step.actions \o rest.actions,
                  dispatched |-> step.dispatched \o rest.dispatched,
                  tool_calls |-> step.tool_calls \o rest.tool_calls,
                  raised |-> rest.raised]

\* Variant of route whose low-confidence branch does not return
route_fallthrough(settings, context_output, answers) ==
    LET confidence == Get(context_output.confidence, 0)
        recommendations == Get(context_output.recommendations, <<>>)
        risk_level == Get(context_output.risk_assessment, "low")
        keywords == get_high_risk_keywords(settings.high_risk_keywords)
        low == IF confidence < settings.confidence_threshold
               THEN <<create_human_review_action(<<"Low confidence">>,
                                                 answers.review_queue).action>>
               ELSE <<>>
        high == create_human_review_action(<<"High risk", risk_level>>,
                                           answers.review_queue)
    IN IF detect_high_risk(keywords, context_output)
          \/ risk_level \in {"high", "critical"}
       THEN [actions |-> low \o <<high.action>>,
             dispatched |-> <<>>, tool_calls |-> <<>>,
             review_calls |-> Len(low) + high.posts,
             review_failed |-> high.handoff_failed, risk_evaluated |-> TRUE,
                raised |-> FALSE]
       ELSE LET r == route_recommendations(settings, recommendations,
                                           confidence, answers.tools, 1)
            IN [actions |-> IF r.raised THEN <<>> ELSE low \o r.actions,
                dispatched |-> r.dispatched,
                tool_calls |-> r.tool_calls, review_calls |-> Len(low),
                review_failed |-> low # <<>> /\ high.handoff_failed,
                risk_evaluated |-> TRUE,
                raised |-> r.raised]

\* Variant of route that evaluates the risk gate before the confidence gate
route_risk_first(settings, context_output, answers) ==
    LET confidence == Get(context_output.confidence, 0)
        recommendations == Get(context_output.recommendations, <<>>)
        risk_level == Get(context_output.risk_assessment, "low")
        keywords == get_high_risk_keywords(settings.high_risk_keywords)
    IN IF detect_high_risk(keywords, context_output)
          \/ risk_level \in {"high", "critical"}
       THEN LET h == create_human_review_action(<<"High risk", risk_level>>,
                                                answers.review_queue)
            IN [actions |-> <<h.action>>,
                dispatched |-> <<>>, tool_calls |-> <<>>,
                review_calls |-> h.posts, review_failed |-> h.handoff_failed,
                risk_evaluated |-> TRUE,
                raised |-> FALSE]
       ELSE IF confidence < settings.confidence_threshold
       THEN LET h == create_human_review_action(<<"Low confidence">>,
                                                answers.review_queue)
            IN [actions |-> <<h.action>>,
                dispatched |-> <<>>, tool_calls |-> <<>>,
                review_calls |-> h.posts, review_failed |-> h.handoff_failed,
                risk_evaluated |-> TRUE,
                raised |-> FALSE]
       ELSE LET r == route_recommendations(settings, recommendations,
                                           confidence, answers.tools, 1)
            IN [actions |-> IF r.raised THEN <<>> ELSE r.actions,
                dispatched |-> r.dispatched,
                tool_calls |-> r.tool_calls, review_calls |-> 0,
                review_failed |-> FALSE, risk_evaluated |-> TRUE,
                raised |-> r.raised]

\* Variant of route whose confidence gate also stops a confidence equal to
\* the threshold
route_gate_inclusive(settings, context_output, answers) ==
    LET confidence == Get(context_output.confidence, 0)
        recommendations == Get(context_output.recommendations, <<>>)
        risk_level == Get(context_output.risk_assessment, "low")
        keywords == get_high_risk_keywords(settings.high_risk_keywords)
    IN IF confidence <= settings.confidence_threshold
       THEN LET h == create_human_review_action(<<"Low confidence">>,
                                                answers.review_queue)
            IN [actions |-> <<h.action>>,
                dispatched |-> <<>>, tool_calls |-> <<>>,
                review_calls |-> h.posts, review_failed |-> h.handoff_failed,
                risk_evaluated |-> FALSE,
                raised |-> FALSE]
       ELSE IF detect_high_risk(keywords, context_output)
               \/ risk_level \in {"high", "critical"}
       THEN LET h == create_human_review_action(<<"High risk", risk_level>>,
                                                answers.review_queue)
            IN [actions |-> <<h.action>>,
                dispatched |-> <<>>, tool_calls |-> <<>>,
                review_calls |-> h.posts, review_failed |-> h.handoff_failed,
                risk_evaluated |-> TRUE,
                raised |-> FALSE]
       ELSE LET r == route_recommendations(settings, recommendations,
                                           confidence, answers.tools, 1)
            IN [actions |-> IF r.raised THEN <<>> ELSE r.actions,
                dispatched |-> r.dispatched,
                tool_calls |-> r.tool_calls, review_calls |-> 0,
                review_failed |-> FALSE, risk_evaluated |-> TRUE,
                raised |-> r.raised]

\* ActionRouter.route.  answers.tools[i] is what the external tool answers
\* for the i-th recommendation and answers.review_queue what the review
\* queue answers ("ok" or "error").  Besides the returned Actions the result
\* records what the call did: the dispatchers entered, the tools called, the
\* POSTs to the review queue and whether the hand-off failed, whether
\* _detect_high_risk ran, and whether the call raised (it then returns no
\* Action, whatever its earlier iterations did)
route(settings, context_output, answers) ==
    LET confidence == Get(context_output.confidence, 0)
        recommendations == Get(context_output.recommendations, <<>>)
        risk_level == Get(context_output.risk_assessment, "low")
        keywords == get_high_risk_keywords(settings.high_risk_keywords)
    IN IF confidence < settings.confidence_threshold
       THEN LET h == create_human_review_action(<<"Low confidence">>,
                                                answers.review_queue)
            IN [actions |-> <<h.action>>,
                dispatched |-> <<>>, tool_calls |-> <<>>,
                review_calls |-> h.posts, review_failed |-> h.handoff_failed,
                risk_evaluated |-> FALSE,
                raised |-> FALSE]
       ELSE IF detect_high_risk(keywords, context_output)
               \/ risk_level \in {"high", "critical"}
       THEN LET h == create_human_review_action(<<"High risk", risk_level>>,
                                                answers.review_queue)
            IN [actions |-> <<h.action>>,
                dispatched |-> <<>>, tool_calls |-> <<>>,
                review_calls |-> h.posts, review_failed |-> h.handoff_failed,
                risk_evaluated |-> TRUE,
                raised |-> FALSE]
       ELSE LET r == route_recommendations(settings, recommendations,
                                           confidence, answers.tools, 1)
            IN [actions |-> IF r.raised THEN <<>> ELSE r.actions,
                dispatched |-> r.dispatched,
                tool_calls |-> r.tool_calls, review_calls |-> 0,
                review_failed |-> FALSE, risk_evaluated |-> TRUE,
                raised |-> r.raised]

\* ------------------------------------------------------------------------
\* Graph Builder (aubs/src/dag_builder.py)
\* ------------------------------------------------------------------------
\* AUBSSettings.get_agent_configs: fallback and retry budget of each stage
get_agent_configs(settings) ==
    [triage |-> [fallback_allowed |-> TRUE, max_retries |-> settings.max_retries],
     vision |-> [fallback_allowed |-> TRUE, max_retries |-> settings.max_retries],
     deadline |-> [fallback_allowed |-> TRUE, max_retries |-> settings.max_retries],
     task |-> [fallback_allowed |-> TRUE, max_retries |-> settings.max_retries],
     context |-> [fallback_allowed |-> FALSE, max_retries |-> settings.max_retries]]

\* A task node.  xcom_pull is the consumes map, a set of <<key, producer>>
\* pairs (empty when the node has no xcom_pull entry); critical is FALSE
\* for a node without a "critical" entry
Task(task_id, agent_type, depends_on, xcom_pull, config, on_failure, critical) ==
    [task_id |-> task_id, agent_type |-> agent_type, depends_on |-> depends_on,
     xcom_pull |-> xcom_pull, max_retries |-> config.max_retries,
     on_failure |-> on_failure, critical |-> critical]

OnFailure(config) == IF config.fallback_allowed THEN "retry" ELSE "fail"

build_triage_task(agent_configs) ==
    Task("triage_agent", "triage", <<>>, {}, agent_configs.triage,
         OnFailure(agent_configs.triage), FALSE)

build_vision_task(agent_configs) ==
    Task("vision_agent", "vision", <<"triage_agent">>, {}, agent_configs.vision,
         OnFailure(agent_configs.vision), FALSE)

build_deadline_task(agent_configs) ==
    Task("deadline_agent", "deadline", <<"triage_agent">>,
         {<<"triage_output", "triage_agent">>}, agent_configs.deadline,
         OnFailure(agent_configs.deadline), FALSE)

build_task_categorizer_task(agent_configs) ==
    Task("task_agent", "task", <<"triage_agent">>,
         {<<"triage_output", "triage_agent">>}, agent_configs.task,
         OnFailure(agent_configs.task), FALSE)

\* Variant of _build_context_task that ignores has_vision
build_context_task_fixed(agent_configs, has_vision) ==
    Task("context_agent", "context",
         <<"triage_agent", "deadline_agent", "task_agent">>,
         {<<"triage_output", "triage_agent">>,
          <<"deadline_output", "deadline_agent">>,
          <<"task_output", "task_agent">>},
         agent_configs.context, "fail", TRUE)

build_context_task(agent_configs, has_vision) ==
    LET dependencies ==
            <<"triage_agent", "deadline_agent", "task_agent">>
                \o (IF has_vision THEN <<"vision_agent">> ELSE <<>>)
        xcom_pull ==
            {<<"triage_output", "triage_agent">>,
             <<"deadline_output", "deadline_agent">>,
             <<"task_output", "task_agent">>}
                \cup (IF has_vision THEN {<<"vision_output", "vision_agent">>}
                      ELSE {})
    IN Task("context_agent", "context", dependencies, xcom_pull,
            agent_configs.context, "fail", TRUE)

\* Variant of build that includes the vision task for every email
build_always_vision(settings, email) ==
    LET agent_configs == get_agent_configs(settings)
        has_attachments == Len(email.attachments) > 0
    IN [tasks |-> <<build_triage_task(agent_configs),
                    build_vision_task(agent_configs),
                    build_deadline_task(agent_configs),
                    build_task_categorizer_task(agent_configs),
                    build_context_task(agent_configs, has_attachments)>>,
        max_retries |-> settings.max_retries,
        timeout |-> settings.execution_timeout,
        has_attachments |-> has_attachments]

\* EmailProcessingDAG.build
build(settings, email) ==
    LET agent_configs == get_agent_configs(settings)
        has_attachments == Len(email.attachments) > 0
    IN [tasks |-> <<build_triage_task(agent_configs)>>
                  \o (IF has_attachments
                      THEN <<build_vision_task(agent_configs)>> ELSE <<>>)
                  \o <<build_deadline_task(agent_configs),
                       build_task_categorizer_task(agent_configs),
                       build_context_task(agent_configs, has_attachments)>>,
        max_retries |-> settings.max_retries,
        timeout |-> settings.execution_timeout,
        has_attachments |-> has_attachments]

\* ------------------------------------------------------------------------
\* Execution Submitter / Monitor (aubs/src/orchestrator.py)
\* ------------------------------------------------------------------------
PollInterval == 5     \* seconds between two polls
MinTimeout == 30      \* smallest execution_timeout the settings accept

\* JSON null in a response of the engine
JsonNull == "null"

\* an Optional field: None is <<>>
FromJson(v) == IF v = JsonNull THEN <<>> ELSE <<v>>

Now == <<"utcnow">>

TerminalStatuses == {"completed", "failed", "cancelled"}

\* Execution(...) as process_email constructs it (lines 124-135).
\* started_at defaults to the clock's datetime.now(): the executions of one
\* run are stamped in the order of their creation
new_execution(id, mail) ==
    [email_id |-> id,
     dolphin_execution_id |-> <<>>,
     status |-> "pending",
     started_at |-> id,
     completed_at |-> <<>>,
     error_message |-> <<>>,
     metadata |-> [has_attachments |-> Len(mail.attachments) > 0,
                   attachment_count |-> Len(mail.attachments)],
     agent_outputs |-> <<>>,
     actions |-> <<>>]

\* process_email, lines 153-158
build_failed(execution) ==
    [execution EXCEPT !.status = "failed",
                      !.error_message = <<"DAG build failed: error">>,
                      !.completed_at = Now]

\* process_email, lines 162-164
submitted(execution, dolphin_execution_id) ==
    [execution EXCEPT !.dolphin_execution_id = <<dolphin_execution_id>>,
                      !.status = "running"]

\* Variant of the except clause of the submission that records no error
submit_failed_no_error(execution) ==
    [execution EXCEPT !.status = "failed", !.completed_at = Now]

\* process_email, lines 177-182
submit_failed(execution) ==
    [execution EXCEPT !.status = "failed",
                      !.error_message = <<"DAG submission failed: error">>,
                      !.completed_at = Now]

\* Variant of the timeout check that never finds the time used up
timeout_never_reached(elapsed, execution_timeout) == FALSE

\* _monitor_execution, lines 255-256: elapsed > self.settings.execution_timeout
timeout_reached(elapsed, execution_timeout) == elapsed > execution_timeout

\* Variant of the timeout branch that leaves the error message unset
timed_out_no_message(execution) ==
    [execution EXCEPT !.status = "failed", !.completed_at = Now]

\* _monitor_execution, lines 257-262
timed_out(execution) ==
    [execution EXCEPT !.status = "failed",
                      !.error_message = <<"Execution timeout">>,
                      !.completed_at = Now]

\* Variant of the failed branch that does not stamp completed_at
engine_failed_unstamped(execution, status_data) ==
    [execution EXCEPT !.status = "failed",
                      !.error_message =
                          FromJson(Get(status_data.error, "Unknown error"))]

\* Variant of the failed branch that records a fixed message
engine_failed_generic(execution, status_data) ==
    [execution EXCEPT !.status = "failed",
                      !.error_message = <<"Unknown error">>,
                      !.completed_at = Now]

\* _monitor_execution, lines 279-285
engine_failed(execution, status_data) ==
    [execution EXCEPT !.status = "failed",
                      !.error_message =
                          FromJson(Get(status_data.error, "Unknown error")),
                      !.completed_at = Now]

\* Variant of the poll that copies the engine's status onto the Execution
still_running_mirrored(execution, dolphin_status) ==
    [execution EXCEPT !.status = dolphin_status]

\* _monitor_execution, lines 275-293: a status that is neither "completed"
\* nor "failed" takes no branch; the Execution is not touched
still_running(execution, dolphin_status) == execution

\* what the event bus does with one publication: it takes the event, its
\* publish call raises, or the client never connected to it
BusAnswers == {"ok", "error", "disconnected"}

\* Variant of _publish_event that lets the exception of the bus escape
publish_event_propagating(bus) ==
    [sent |-> bus = "ok", raised |-> bus = "error"]

\* _publish_event, lines 374-405: without a connection nothing is sent;
\* an exception of the publish call is logged and swallowed
publish_event(bus) ==
    [sent |-> bus = "ok", raised |-> FALSE]

\* Variant of the except clause of the poll that gives the execution up
poll_raised_fatal(execution) ==
    [execution EXCEPT !.status = "failed",
                      !.error_message = <<"Monitoring error">>,
                      !.completed_at = Now]

\* _monitor_execution, lines 291-293: an exception of the poll (or of the
\* processing of its answer) is logged; the Execution is not touched
poll_raised(execution) == execution

\* a dict is falsy when it is empty
IsEmptyOutput(context_result) ==
    /\ context_result.confidence = <<>>
    /\ context_result.risk_assessment = <<>>
    /\ context_result.synthesis = <<>>
    /\ context_result.recommendations = <<>>

\* _process_completion with _route_actions.  task_results is the engine's
\* "task_results" value; when it is not a mapping, .items() raises before
\* anything is changed.  Returns the Execution, whether the call raised,
\* whether route was invoked and the events _route_actions tried to publish.
\* Were the publication of an action's event to raise, _route_actions would
\* raise before the actions are attached to the Execution, as it does when
\* route raises
process_completion(conf, execution, status_data, answers, bus) ==
    LET task_results ==
            Get(status_data.task_results,
                [is_mapping |-> TRUE, context_agent |-> <<>>])
    IN IF ~task_results.is_mapping
       THEN [execution |-> execution, raised |-> TRUE, routed |-> FALSE,
             events |-> <<>>]
       ELSE IF task_results.context_agent = <<>>
               \/ IsEmptyOutput(task_results.context_agent[1])
       THEN [execution |-> [execution EXCEPT !.status = "completed",
                                             !.completed_at = Now],
             raised |-> FALSE, routed |-> FALSE, events |-> <<>>]
       ELSE LET r == route(conf, task_results.context_agent[1], answers)
                announced ==
                    [i \in 1..Len(r.actions) |->
                        <<"actions.created", r.actions[i].action_type>>]
            IN IF r.raised
               THEN [execution |-> execution, raised |-> TRUE,
                     routed |-> TRUE, events |-> <<>>]
               ELSE IF r.actions # <<>> /\ publish_event(bus).raised
               THEN [execution |-> execution, raised |-> TRUE,
                     routed |-> TRUE, events |-> <<announced[1]>>]
               ELSE [execution |->
                         [execution EXCEPT !.actions = @ \o r.actions,
                                           !.status = "completed",
                                           !.completed_at = Now],
                     raised |-> FALSE, routed |-> TRUE, events |-> announced]

\* list.sort(key=lambda e: e.started_at, reverse=True), one insertion: the
\* sort is stable, so x goes behind every execution that started at the same
\* time or later
RECURSIVE insert_by_started_at(_, _)
insert_by_started_at(x, sorted) ==
    IF sorted = <<>> THEN <<x>>
    ELSE IF Head(sorted).started_at >= x.started_at
    THEN <<Head(sorted)>> \o insert_by_started_at(x, Tail(sorted))
    ELSE <<x>> \o sorted

RECURSIVE sort_by_started_at(_)
sort_by_started_at(list) ==
    IF list = <<>> THEN <<>>
    ELSE insert_by_started_at(list[Len(list)],
                              sort_by_started_at(SubSeq(list, 1, Len(list) - 1)))

\* list[:limit]: a negative limit counts from the end of the list
slice_to(list, limit) ==
    IF limit >= 0
    THEN SubSeq(list, 1, IF limit < Len(list) THEN limit ELSE Len(list))
    ELSE SubSeq(list, 1, IF Len(list) + limit > 0 THEN Len(list) + limit ELSE 0)

\* Variant of list_executions that sorts oldest-first
list_executions_oldest_first(ledger, limit, status_filter) ==
    LET matching ==
            IF status_filter # <<>>
            THEN SelectSeq(ledger, LAMBDA e : e.status = status_filter[1])
            ELSE ledger
        newest_first == sort_by_started_at(matching)
    IN slice_to([i \in 1..Len(newest_first) |->
                    newest_first[Len(newest_first) + 1 - i]], limit)

\* AUBSOrchestrator.list_executions.  ledger is the values of
\* self.executions in insertion order; status_filter is <<>> for None (every
\* ExecutionStatus is a non-empty string, hence truthy)
list_executions(ledger, limit, status_filter) ==
    LET matching ==
            IF status_filter # <<>>
            THEN SelectSeq(ledger, LAMBDA e : e.status = status_filter[1])
            ELSE ledger
    IN slice_to(sort_by_started_at(matching), limit)

\* ------------------------------------------------------------------------
\* State
\* ------------------------------------------------------------------------
VARIABLES
    settings,         \* AUBSSettings held by the router, builder, orchestrator
    context_output,   \* the synthesis output handed to route
    route_result,     \* what the latest call of route returned and did
    route_count,      \* calls of route made on context_output
    first_call,       \* kinds and tool outcome of the first of those calls
    email,            \* the email handed to the Graph Builder
    dag_definition,   \* the graph build returned for it (<<>> before)
    executions,       \* AUBSOrchestrator.executions, the ledger: id -> Execution
    coroutine,        \* where each call of process_email stands
    monitor,          \* where each _monitor_execution task stands, and the
                      \* seconds since its start_time
    engine,           \* per execution: the graph the engine was handed,
                      \* the "error" entry of its failed answer (if any) and
                      \* what its answers to the polls have been
    router_log,       \* per execution, for each call of route: the status
                      \* of the execution, the synthesis output handed over
                      \* and what the tools and the review queue answered
    listing,          \* the latest call of list_executions: its arguments
                      \* and the list it returned
    events,           \* per execution: the lifecycle events handed to
                      \* _publish_event, in order
    polls,            \* per execution: how many polls its monitor has had
                      \* answered and how many of them raised (kept by
                      \* SpecMonitor only)
    agent,            \* the ContextAgent instance: how its construction
                      \* ended, its config, its checkpoints list, the
                      \* AgentResults its execute calls returned, the clock
    simple_executions,\* SimpleOrchestrator.executions, in creation order,
                      \* with where each call of process_email stands
    chat              \* ChatService: sessions, messages, the next uuid4 and
                      \* the calls of chat made so far

router_vars == <<context_output, route_result, route_count, first_call>>
dag_vars == <<email, dag_definition>>
orchestrator_vars == <<executions, coroutine, monitor, engine, router_log, events>>
list_vars == <<listing>>
poll_vars == <<polls>>
service_vars == <<agent, simple_executions, chat>>
vars == <<settings, router_vars, dag_vars, orchestrator_vars, list_vars,
          poll_vars, service_vars>>

\* ------------------------------------------------------------------------
\* Inputs of the router
\* ------------------------------------------------------------------------
\* AUBSSettings.confidence_threshold: ge 0.0, le 1.0 and not below 0.5
ConfidenceThresholds == {5, 9}

\* Raw values of the HIGH_RISK_KEYWORDS option: "", "b", "aB, aa", "b,"
KeywordConfigs ==
    { <<>>, <<"b">>, <<"a", "B", ",", " ", "a", "a">>, <<"b", ",">> }

DefaultTimeout == 300
DefaultRetries == 3

MakeSettings(threshold, raw_keywords, todoist, gcal, twilio, timeout, retries) ==
    [confidence_threshold |-> threshold,
     high_risk_keywords |-> validate_keywords(raw_keywords),
     mcp_todoist_enabled |-> todoist,
     mcp_gcal_enabled |-> gcal,
     mcp_twilio_enabled |-> twilio,
     execution_timeout |-> timeout,
     max_retries |-> retries]

\* a recommendation that is a mapping, with "data" (if any) a mapping
Recommendation(type, conf) ==
    [action_type |-> type, confidence |-> conf,
     is_mapping |-> TRUE, data_is_mapping |-> TRUE]

RecTypes == {<<"create_task">>, <<"schedule_event">>,
             <<"send_notification">>, <<"archive">>}

\* a recommendation either carries its own confidence (0.7) or none
RecConfidences == {<<>>, <<7>>}

Recommendations == {Recommendation(t, c) : t \in RecTypes, c \in RecConfidences}

SeqsUpTo(S, n) == UNION {[1..k -> S] : k \in 0..n}

\* fixed recommendation lists for the inputs that exercise the gates: key
\* absent, and a list with a recommendation that has no action_type
GateRecommendations ==
    { <<>>,
      << <<Recommendation(<<"create_task">>, <<>>),
           Recommendation(<<>>, <<7>>),
           Recommendation(<<"send_notification">>, <<7>>)>> >> }

\* synthesis outputs with every recommendation list, few gate inputs
RecommendationOutputs ==
    [confidence : {<<9>>},
     risk_assessment : {<<>>, <<"medium">>},
     synthesis : {<<>>},
     recommendations : {<<r>> : r \in SeqsUpTo(Recommendations, MaxRecs)}]

\* synthesis outputs with every gate input, few recommendation lists
GateOutputs ==
    [confidence : {<<>>, <<5>>, <<9>>},
     risk_assessment : {<<>>} \cup {<<r>> : r \in RiskLevels},
     synthesis : {<<>>} \cup {<<s>> : s \in SeqsUpTo(Chars, MaxLen)},
     recommendations : GateRecommendations]

\* an attachment as the builder sees it; the builder reads only how many
\* there are
Attachment == [filename |-> "f"]
NoEmail == [attachments |-> <<>>]

NoResult ==
    [actions |-> <<>>, dispatched |-> <<>>, tool_calls |-> <<>>,
     review_calls |-> 0, review_failed |-> FALSE, risk_evaluated |-> FALSE,
                raised |-> FALSE]

Kinds(actions) == [i \in 1..Len(actions) |-> actions[i].action_type]

ToolFailed(actions) == \E i \in 1..Len(actions) : actions[i].status = "failed"

ExecIds == 1..MaxExecs

\* list_executions has not been called
NoListing ==
    [called |-> FALSE, limit |-> 0, status_filter |-> <<>>, result |-> <<>>]

\* BaseAgent/ContextAgent before any construction: no instance, no result
NoAgent ==
    [state |-> "none", error |-> "none", config |-> <<>>,
     checkpoints |-> <<>>, results |-> <<>>, now |-> 0]

\* ChatService.__init__: no session, no message list.  sessions and messages
\* are dicts keyed by uuid: an absent key is <<>>, a present one <<value>>.
\* next_id is the uuid4 the next ChatSession() draws; calls are the calls of
\* chat made so far
MaxSessionIds == 2
Uuids == 0..MaxSessionIds
NoChat ==
    [sessions |-> [id \in Uuids |-> <<>>],
     messages |-> [id \in Uuids |-> <<>>],
     next_id |-> 1, calls |-> <<>>]

\* no agent was constructed, SimpleOrchestrator has processed no email and
\* the chat service holds no session
IdleServices ==
    /\ agent = NoAgent
    /\ simple_executions = <<>>
    /\ chat = NoChat

\* no task of the orchestrator exists and nothing was asked of it
IdleTasks ==
    /\ coroutine = [e \in ExecIds |-> "none"]
    /\ monitor = [e \in ExecIds |-> [pc |-> "none", elapsed |-> 0]]
    /\ engine = [e \in ExecIds |->
                    [dag |-> <<>>, reported_terminal |-> FALSE,
                     failed_with |-> <<>>]]
    /\ router_log = [e \in ExecIds |-> <<>>]
    /\ events = [e \in ExecIds |-> <<>>]
    /\ listing = NoListing
    /\ polls = [e \in ExecIds |-> [answered |-> 0, raised |-> 0]]
    /\ IdleServices

\* no email has been submitted: the ledger is empty and no task exists
IdleOrchestrator ==
    /\ executions = <<>>
    /\ IdleTasks

InitRouter ==
    /\ \/ /\ \E t \in ConfidenceThresholds, f1 \in BOOLEAN, f2 \in BOOLEAN,
               f3 \in BOOLEAN :
               settings = MakeSettings(t, <<"b">>, f1, f2, f3,
                                       DefaultTimeout, DefaultRetries)
          /\ context_output \in RecommendationOutputs
       \/ /\ \E t \in ConfidenceThresholds, k \in KeywordConfigs :
               settings = MakeSettings(t, k, TRUE, TRUE, TRUE,
                                       DefaultTimeout, DefaultRetries)
          /\ context_output \in GateOutputs
    /\ route_result = NoResult
    /\ route_count = 0
    /\ first_call = [kinds |-> <<>>, failed |-> FALSE]
    /\ email = NoEmail
    /\ dag_definition = <<>>
    /\ IdleOrchestrator

\* what the collaborators of one call of route may answer: each external
\* tool and the review queue with a result ("ok") or by raising ("error")
Answers(recommendations) ==
    [tools : [1..Len(recommendations) -> {"ok", "error"}],
     review_queue : {"ok", "error"}]

\* One call of ActionRouter.route on context_output
RouteCall ==
    /\ route_count < RouteCalls
    /\ \E answers \in Answers(Get(context_output.recommendations, <<>>)) :
          LET r == route(settings, context_output, answers)
          IN /\ route_result' = r
             /\ first_call' = IF route_count = 0
                              THEN [kinds |-> Kinds(r.actions),
                                    failed |-> ToolFailed(r.actions)]
                              ELSE first_call
    /\ route_count' = route_count + 1
    /\ UNCHANGED <<settings, service_vars, context_output, dag_vars, orchestrator_vars,
                   list_vars, poll_vars>>

NextRouter == RouteCall

SpecRouter == InitRouter /\ [][NextRouter]_vars

\* ------------------------------------------------------------------------
\* Properties of the Decision Router (SpecRouter)
\* ------------------------------------------------------------------------
Routed == route_count > 0
Returned == route_result.actions
SynthConfidence == Get(context_output.confidence, 0)
SynthRisk == Get(context_output.risk_assessment, "low")
SynthNarrative == Get(context_output.synthesis, <<>>)
SynthRecs == Get(context_output.recommendations, <<>>)
ConfiguredKeywords == get_high_risk_keywords(settings.high_risk_keywords)

\* kw occurs in s when letter case is ignored (configured keywords are
\* lower-case)
OccursIgnoringCase(kw, s) ==
    \E i \in 1..(Len(s) + 1) :
        /\ i + Len(kw) - 1 <= Len(s)
        /\ \A j \in 1..Len(kw) : LowerChar(s[i + j - 1]) = kw[j]

KeywordOccurs ==
    \E k \in 1..Len(ConfiguredKeywords) :
        OccursIgnoringCase(ConfiguredKeywords[k], SynthNarrative)

ConfidenceGatePasses == SynthConfidence >= settings.confidence_threshold
RiskGatePasses == SynthRisk \notin {"high", "critical"} /\ ~KeywordOccurs
NormalPath == ConfidenceGatePasses /\ RiskGatePasses

IsReview(a) == a.action_type = "human_review"
HasReview(actions) == \E i \in 1..Len(actions) : IsReview(actions[i])
HasKnownRec ==
    \E i \in 1..Len(SynthRecs) :
        Get(SynthRecs[i].action_type, "None") \in KnownActionTypes

LowConfidenceOutcome(actions) ==
    /\ Len(actions) = 1 /\ IsReview(actions[1])
    /\ actions[1].reason = <<"Low confidence">>
HighRiskOutcome(actions) ==
    /\ Len(actions) = 1 /\ IsReview(actions[1])
    /\ Len(actions[1].reason) = 2 /\ actions[1].reason[1] = "High risk"
RecommendationOutcome(actions) ==
    \A i \in 1..Len(actions) : actions[i].action_type \in KnownActionTypes

\* C3: every call of route ends in exactly one of the three outcomes (one
\* low-confidence review Action, one high-risk review Action, or a list of
\* task/calendar/notification Actions), and a returned list that holds a
\* human-review Action has that Action as its only element.
C3_ExclusiveOutcomes ==
    Routed =>
        /\ \/ LowConfidenceOutcome(Returned) /\ ~HighRiskOutcome(Returned)
                 /\ ~RecommendationOutcome(Returned)
           \/ ~LowConfidenceOutcome(Returned) /\ HighRiskOutcome(Returned)
                 /\ ~RecommendationOutcome(Returned)
           \/ ~LowConfidenceOutcome(Returned) /\ ~HighRiskOutcome(Returned)
                 /\ RecommendationOutcome(Returned)
        /\ HasReview(Returned) => Len(Returned) = 1

\* route returned a review Action for an output that carries recommendations
\* of known types
C3_Witness == Routed /\ HasReview(Returned) /\ HasKnownRec

\* C4: when the synthesis confidence is below the threshold, route returns
\* exactly one human-review Action with reason "Low confidence", whatever the
\* risk level, narrative and recommendations are, and the keyword/risk
\* evaluation is not reached.
C4_LowConfidenceGate ==
    (Routed /\ SynthConfidence < settings.confidence_threshold) =>
        /\ LowConfidenceOutcome(Returned)
        /\ ~route_result.risk_evaluated
        /\ route_result.dispatched = <<>>

\* low confidence together with critical risk, a matching keyword and
\* recommendations of known types
C4_Witness ==
    /\ Routed /\ SynthConfidence < settings.confidence_threshold
    /\ SynthRisk = "critical" /\ KeywordOccurs /\ HasKnownRec
    /\ context_output.confidence # <<>>
    /\ LowConfidenceOutcome(Returned)

\* C5: when the confidence gate passes and the risk is high or critical or a
\* configured keyword occurs in the narrative, route returns exactly one
\* human-review Action and no other Action, and enters no dispatcher.
C5_RiskGate ==
    (Routed /\ ConfidenceGatePasses
        /\ (SynthRisk \in {"high", "critical"} \/ KeywordOccurs)) =>
        /\ Len(Returned) = 1 /\ IsReview(Returned[1])
        /\ route_result.dispatched = <<>>
        /\ route_result.tool_calls = <<>>

\* the keyword alone (risk low, narrative in upper case) stops an output
\* with recommendations of known types
C5_Witness ==
    /\ Routed /\ ConfidenceGatePasses /\ SynthRisk = "low"
    /\ KeywordOccurs /\ "B" \in {SynthNarrative[i] : i \in 1..Len(SynthNarrative)}
    /\ \A k \in 1..Len(ConfiguredKeywords) : ConfiguredKeywords[k] # <<>>
    /\ HasKnownRec
    /\ HighRiskOutcome(Returned)

\* positions of the recommendations with a known action_type, in order
KnownPositions ==
    SelectSeq([i \in 1..Len(SynthRecs) |-> i],
              LAMBDA i : Get(SynthRecs[i].action_type, "None") \in KnownActionTypes)

\* C6: on the normal path route returns one Action per recommendation of a
\* known action_type, of that kind and in recommendation order, whose
\* confidence is the recommendation's own when it has one and the synthesis
\* confidence otherwise.
C6_NormalRouting ==
    (Routed /\ NormalPath) =>
        /\ Len(Returned) = Len(KnownPositions)
        /\ \A j \in 1..Len(Returned) :
              LET rec == SynthRecs[KnownPositions[j]]
              IN /\ Returned[j].rec = KnownPositions[j]
                 /\ Returned[j].action_type = rec.action_type[1]
                 /\ Returned[j].confidence =
                        IF rec.confidence = <<>> THEN SynthConfidence
                        ELSE rec.confidence[1]

\* two Actions of different kinds, one with the recommendation's confidence
\* and one with the synthesis confidence
C6_Witness ==
    /\ Routed /\ NormalPath /\ Len(Returned) = 2
    /\ Returned[1].action_type # Returned[2].action_type
    /\ SynthRecs[1].confidence # <<>> /\ SynthRecs[2].confidence = <<>>
    /\ Returned[1].confidence # Returned[2].confidence

UnknownPosition(i) ==
    Get(SynthRecs[i].action_type, "None") \notin KnownActionTypes

\* C7: on the normal path a recommendation with an unknown action_type yields
\* no Action and enters no dispatcher, and every recommendation with a known
\* type, also one after the unknown one, yields exactly one Action.
C7_UnknownSkipped ==
    (Routed /\ NormalPath) =>
        \A i \in 1..Len(SynthRecs) :
            LET mine == {j \in 1..Len(Returned) : Returned[j].rec = i}
            IN IF UnknownPosition(i)
               THEN mine = {}
               ELSE Cardinality(mine) = 1

\* an unknown recommendation followed by a known one that was dispatched
C7_Witness ==
    /\ Routed /\ NormalPath /\ Len(SynthRecs) >= 2
    /\ UnknownPosition(1) /\ ~UnknownPosition(2)
    /\ \E j \in 1..Len(Returned) : Returned[j].rec = 2

\* C8: a later call of route on the same synthesis output returns the same
\* sequence of action kinds as the first call, whatever the tools answered.
C8_SameKinds ==
    route_count >= 2 => Kinds(Returned) = first_call.kinds

\* the tools failed in one of the two calls and not in the other
C8_Witness ==
    /\ route_count >= 2 /\ Len(Returned) >= 1
    /\ first_call.failed # ToolFailed(Returned)

\* C18: every human-review Action route returns has confidence 0.0 and is
\* pending, and its hand-off to the review queue is attempted exactly once
\* in the call, whether or not it fails: when the hand-off fails the Action
\* is returned all the same, pending, and no second attempt is made.  A
\* call that returns no human-review Action makes no hand-off.
C18_ReviewHandedOffOnce ==
    Routed =>
        /\ \A j \in 1..Len(Returned) :
              IsReview(Returned[j]) =>
                  /\ Returned[j].confidence = 0
                  /\ Returned[j].status = "pending"
                  /\ Returned[j].result = "none"
        /\ route_result.review_calls
              = Cardinality({j \in 1..Len(Returned) : IsReview(Returned[j])})
        /\ route_result.review_calls \in {0, 1}
        /\ route_result.review_failed =>
              /\ HasReview(Returned)
              /\ route_result.review_calls = 1

\* a call of route whose hand-off to the review queue failed and that
\* returned the pending human-review Action
C18_Witness ==
    /\ Routed /\ route_result.review_failed
    /\ Len(Returned) = 1 /\ IsReview(Returned[1])
    /\ Returned[1].status = "pending" /\ Returned[1].confidence = 0

\* C20: every create-task, schedule-event or send-notification Action that
\* route returns has a confidence of at least the configured
\* confidence_threshold, also when its recommendation specifies a confidence
\* of its own.
C20_ActionsMeetThreshold ==
    Routed =>
        \A j \in 1..Len(Returned) :
            Returned[j].action_type \in KnownActionTypes
                => Returned[j].confidence >= settings.confidence_threshold

\* an Action that was dispatched to its tool and completed with the
\* confidence 0.7 of its recommendation, under a threshold of 0.9
C20_Witness ==
    /\ Routed /\ settings.confidence_threshold = 9 /\ SynthConfidence = 9
    /\ \E j \in 1..Len(Returned) :
          /\ Returned[j].action_type \in KnownActionTypes
          /\ Returned[j].confidence = 7
          /\ Returned[j].status = "completed"
          /\ SynthRecs[Returned[j].rec].confidence = <<7>>

\* ------------------------------------------------------------------------
\* Graph Builder: specification and properties (SpecDag)
\* ------------------------------------------------------------------------
\* AUBSSettings.max_retries: ge 1, le 10
MinRetries == 1
MaxRetries == 10
\* AUBSSettings.execution_timeout: ge 30, le 3600, default 300
ExecutionTimeouts == {30, DefaultTimeout, 3600}

InitDag ==
    /\ \E r \in MinRetries..MaxRetries, t \in ExecutionTimeouts :
          settings = MakeSettings(9, <<"b">>, TRUE, TRUE, TRUE, t, r)
    /\ email \in [attachments : SeqsUpTo({Attachment}, MaxAttachments)]
    /\ dag_definition = <<>>
    /\ IdleOrchestrator
    /\ context_output = [confidence |-> <<>>, risk_assessment |-> <<>>,
                         synthesis |-> <<>>, recommendations |-> <<>>]
    /\ route_result = NoResult
    /\ route_count = 0
    /\ first_call = [kinds |-> <<>>, failed |-> FALSE]

\* EmailProcessingDAG.build on the email
BuildDag ==
    /\ dag_definition = <<>>
    /\ dag_definition' = build(settings, email)
    /\ UNCHANGED <<settings, service_vars, email, router_vars, orchestrator_vars, list_vars,
                   poll_vars>>

NextDag == BuildDag

SpecDag == InitDag /\ [][NextDag]_vars

Built == dag_definition # <<>>
Tasks == dag_definition.tasks
TaskIds == {Tasks[i].task_id : i \in 1..Len(Tasks)}
Position(id) == CHOOSE i \in 1..Len(Tasks) : Tasks[i].task_id = id
DependsOn(i) == {Tasks[i].depends_on[k] : k \in 1..Len(Tasks[i].depends_on)}
ContextTask == Tasks[Position("context_agent")]

\* C9: for an email without attachments the graph has no vision node and the
\* synthesis node depends on exactly 3 nodes; for an email with at least one
\* attachment the graph has the vision node and the synthesis node depends on
\* exactly 4 nodes.
C9_ConditionalVision ==
    Built =>
        /\ "context_agent" \in TaskIds
        /\ IF Len(email.attachments) = 0
           THEN /\ "vision_agent" \notin TaskIds
                /\ Len(ContextTask.depends_on) = 3
                /\ Cardinality(DependsOn(Position("context_agent"))) = 3
           ELSE /\ "vision_agent" \in TaskIds
                /\ Len(ContextTask.depends_on) = 4
                /\ Cardinality(DependsOn(Position("context_agent"))) = 4

\* a graph built for an email with several attachments: five nodes, the
\* vision node among them
C9_Witness ==
    /\ Built /\ Len(email.attachments) >= 2
    /\ "vision_agent" \in TaskIds /\ Len(Tasks) = 5

\* node ids reachable from node i along at most n dependency edges
RECURSIVE Upstream(_, _)
Upstream(ids, n) ==
    IF n = 0 THEN ids
    ELSE Upstream(ids \cup UNION {DependsOn(Position(d)) : d \in ids}, n - 1)

\* C10: the graph is acyclic (no node is upstream of itself), every
\* dependency edge points to a node of the graph that comes earlier in the
\* task list, node ids are unique, and the synthesis node depends on exactly
\* the other nodes of the graph.
C10_WellFormedGraph ==
    Built =>
        /\ Cardinality(TaskIds) = Len(Tasks)
        /\ \A i \in 1..Len(Tasks) :
              /\ \A d \in DependsOn(i) : d \in TaskIds /\ Position(d) < i
              /\ Tasks[i].task_id \notin Upstream(DependsOn(i), Len(Tasks))
        /\ DependsOn(Position("context_agent")) = TaskIds \ {"context_agent"}

\* a graph with the vision node, whose synthesis node depends on it
C10_Witness ==
    /\ Built /\ Len(email.attachments) = 1
    /\ "vision_agent" \in DependsOn(Position("context_agent"))
    /\ Position("vision_agent") < Position("context_agent")

\* C11: in every built graph, whatever the configured max_retries, the
\* synthesis node is critical, has a retry budget of 0 and does not permit
\* fallback (its configuration disallows fallback and its failure policy is
\* "fail").
C11_SynthesisNoRetries ==
    Built =>
        /\ ContextTask.critical
        /\ ContextTask.max_retries = 0
        /\ ~get_agent_configs(settings).context.fallback_allowed
        /\ ContextTask.on_failure = "fail"

\* a built graph whose synthesis node is critical and without fallback, and
\* carries the largest retry budget the settings accept
C11_Witness ==
    /\ Built /\ settings.max_retries = MaxRetries
    /\ ContextTask.critical /\ ContextTask.on_failure = "fail"
    /\ ContextTask.max_retries = MaxRetries

\* ------------------------------------------------------------------------
\* Orchestrator: specification (Spec)
\* ------------------------------------------------------------------------
\* the emails submitted to process_email, in order: alternately without and
\* with an attachment
IncomingEmail(id) ==
    [attachments |-> IF id % 2 = 1 THEN <<>> ELSE <<Attachment>>]

\* synthesis outputs the engine returns for the context_agent task: one
\* below the confidence threshold, one of critical risk, one that reaches
\* the recommendation loop, and an empty mapping
OrchestratorOutputs ==
    { [confidence |-> <<5>>, risk_assessment |-> <<"low">>,
       synthesis |-> << <<"a">> >>,
       recommendations |-> << <<Recommendation(<<"create_task">>, <<>>)>> >>],
      [confidence |-> <<9>>, risk_assessment |-> <<"critical">>,
       synthesis |-> << <<"a">> >>,
       recommendations |-> << <<Recommendation(<<"create_task">>, <<>>)>> >>],
      [confidence |-> <<9>>, risk_assessment |-> <<"low">>,
       synthesis |-> << <<"a">> >>,
       recommendations |-> << <<Recommendation(<<"archive">>, <<>>),
                                Recommendation(<<"create_task">>, <<7>>),
                                Recommendation(<<"schedule_event">>, <<>>)>> >>],
      [confidence |-> <<>>, risk_assessment |-> <<>>, synthesis |-> <<>>,
       recommendations |-> <<>>] }

\* values of "task_results" in a status response: not a mapping, a mapping
\* without the context_agent entry, a mapping with it
TaskResults ==
    {[is_mapping |-> FALSE, context_agent |-> <<>>]}
        \cup [is_mapping : {TRUE},
              context_agent : {<<>>} \cup {<<o>> : o \in OrchestratorOutputs}]

\* what one GET /executions/<id> gives the monitor: an exception (network
\* error, error status, invalid body) or the decoded status_data
PollResponses ==
    {[raises |-> TRUE, status |-> "", error |-> <<>>, task_results |-> <<>>]}
        \cup [raises : {FALSE}, status : {"pending", "running"},
              error : {<<>>}, task_results : {<<>>}]
        \cup [raises : {FALSE}, status : {"failed"},
              error : {<<>>, <<JsonNull>>, <<"Agent crashed">>},
              task_results : {<<>>}]
        \cup [raises : {FALSE}, status : {"completed"}, error : {<<>>},
              task_results : {<<>>} \cup {<<t>> : t \in TaskResults}]

Min(a, b) == IF a < b THEN a ELSE b

\* a monitor task that has returned: its start_time is gone with it
Finished == [pc |-> "done", elapsed |-> 0]

\* the synthesis output _process_completion hands to route for a status
\* response: <<>> when the response carries none or an empty one
RoutedOutput(status_data) ==
    LET task_results ==
            Get(status_data.task_results,
                [is_mapping |-> TRUE, context_agent |-> <<>>])
    IN IF task_results.context_agent = <<>>
          \/ IsEmptyOutput(task_results.context_agent[1])
       THEN <<>>
       ELSE task_results.context_agent

\* the answers the collaborators can give while one status response is
\* handled: the review queue answers only when route hands the output to it
\* and a tool only when a dispatcher calls it; a collaborator that is not
\* asked has the entry "ok"
ToolAnswers(status_data) ==
    LET output == RoutedOutput(status_data)
        recommendations ==
            IF output = <<>> THEN <<>>
            ELSE Get(output[1].recommendations, <<>>)
        quiet == [tools |-> [i \in 1..Len(recommendations) |-> "ok"],
                  review_queue |-> "ok"]
        asked == IF output = <<>> THEN NoResult
                 ELSE route(settings, output[1], quiet)
    IN {a \in Answers(recommendations) :
          /\ asked.review_calls = 0 => a.review_queue = "ok"
          /\ \A i \in 1..Len(recommendations) :
                (\A j \in 1..Len(asked.actions) :
                    asked.actions[j].rec = i => asked.actions[j].result = "none")
                => a.tools[i] = "ok"}

Init ==
    /\ settings = MakeSettings(9, <<"b">>, TRUE, TRUE, TRUE,
                               MinTimeout, DefaultRetries)
    /\ context_output = [confidence |-> <<>>, risk_assessment |-> <<>>,
                         synthesis |-> <<>>, recommendations |-> <<>>]
    /\ route_result = NoResult
    /\ route_count = 0
    /\ first_call = [kinds |-> <<>>, failed |-> FALSE]
    /\ email = NoEmail
    /\ dag_definition = <<>>
    /\ IdleOrchestrator

\* a task that ended by an exception
Crashed == [pc |-> "raised", elapsed |-> 0]

\* process_email up to its first suspension (lines 120-147): the Execution
\* is created pending, entered in the ledger, and "emails.received" is
\* published (outside any try: an exception would end the call)
ReceiveEmail(bus) ==
    LET id == Len(executions) + 1
    IN /\ Len(executions) < MaxExecs
       /\ executions' = Append(executions, new_execution(id, IncomingEmail(id)))
       /\ coroutine' = [coroutine EXCEPT
                           ![id] = IF publish_event(bus).raised
                                   THEN "raised" ELSE "received"]
       /\ events' = [events EXCEPT ![id] = Append(@, "emails.received")]
       /\ UNCHANGED <<settings, service_vars, router_vars, dag_vars, list_vars, poll_vars,
                      monitor, engine, router_log>>

\* process_email, lines 149-162: _build_dag returns the graph and the POST
\* to the engine is issued, or _build_dag raises and the Execution fails
BuildDagStep(e, ok) ==
    /\ coroutine[e] = "received"
    /\ LET mail == [attachments |->
                       [i \in 1..executions[e].metadata.attachment_count
                           |-> Attachment]]
       IN IF ok
          THEN /\ engine' = [engine EXCEPT ![e].dag = build(settings, mail)]
               /\ coroutine' = [coroutine EXCEPT ![e] = "submitting"]
               /\ UNCHANGED executions
          ELSE /\ executions' = [executions EXCEPT ![e] = build_failed(@)]
               /\ coroutine' = [coroutine EXCEPT ![e] = "returned"]
               /\ UNCHANGED engine
    /\ UNCHANGED <<settings, service_vars, router_vars, dag_vars, list_vars, poll_vars,
                   monitor, router_log, events>>

\* process_email, lines 162-187: the POST returns an execution id, the
\* Execution becomes running, "dolphin.dag.submitted" is published and the
\* monitor task is created; or the POST fails and the Execution fails.  The
\* publication stands inside the try of the submission: an exception of it
\* would be taken for a failed submission
SubmitReturns(e, ok, bus) ==
    /\ coroutine[e] = "submitting"
    /\ coroutine' = [coroutine EXCEPT ![e] = "returned"]
    /\ IF ok /\ ~publish_event(bus).raised
       THEN /\ executions' = [executions EXCEPT ![e] = submitted(@, e)]
            /\ events' = [events EXCEPT ![e] = Append(@, "dolphin.dag.submitted")]
            /\ monitor' = [monitor EXCEPT ![e] = [pc |-> "check", elapsed |-> 0]]
       ELSE IF ok
       THEN /\ executions' =
                  [executions EXCEPT ![e] = submit_failed(submitted(@, e))]
            /\ events' = [events EXCEPT ![e] = Append(@, "dolphin.dag.submitted")]
            /\ UNCHANGED monitor
       ELSE /\ executions' = [executions EXCEPT ![e] = submit_failed(@)]
            /\ UNCHANGED <<events, monitor>>
    /\ UNCHANGED <<settings, service_vars, router_vars, dag_vars, list_vars, poll_vars,
                   engine, router_log>>

\* the end of _monitor_execution, lines 295-304: "emails.completed" is
\* published and the task returns
MonitorEnds(bus) == IF publish_event(bus).raised THEN Crashed ELSE Finished

\* Variant of the head of the loop in which a timeout fails every running
\* execution of the ledger, not only the monitor's own
MonitorCheck_fails_all(e, bus) ==
    /\ monitor[e].pc = "check"
    /\ IF timeout_reached(monitor[e].elapsed, settings.execution_timeout)
       THEN /\ executions' =
                  [f \in DOMAIN executions |->
                      IF executions[f].status = "running"
                      THEN timed_out(executions[f]) ELSE executions[f]]
            /\ monitor' = [monitor EXCEPT ![e] = MonitorEnds(bus)]
            /\ events' = [events EXCEPT ![e] = Append(@, "emails.completed")]
       ELSE /\ monitor' = [monitor EXCEPT ![e].pc = "poll"]
            /\ UNCHANGED <<executions, events>>
    /\ UNCHANGED <<settings, service_vars, router_vars, dag_vars, list_vars, poll_vars,
                   coroutine, engine, router_log>>

\* _monitor_execution, lines 254-268: the head of the loop.  Past the
\* timeout the Execution fails, the loop is left and "emails.completed" is
\* published; otherwise the GET is issued
MonitorCheck(e, bus) ==
    /\ monitor[e].pc = "check"
    /\ IF timeout_reached(monitor[e].elapsed, settings.execution_timeout)
       THEN /\ executions' = [executions EXCEPT ![e] = timed_out(@)]
            /\ monitor' = [monitor EXCEPT ![e] = MonitorEnds(bus)]
            /\ events' = [events EXCEPT ![e] = Append(@, "emails.completed")]
       ELSE /\ monitor' = [monitor EXCEPT ![e].pc = "poll"]
            /\ UNCHANGED <<executions, events>>
    /\ UNCHANGED <<settings, service_vars, router_vars, dag_vars, list_vars, poll_vars,
                   coroutine, engine, router_log>>

\* _monitor_execution, lines 269-304: the GET returns.  answers are the
\* tools' answers should route dispatch recommendations, bus is what the
\* event bus does with the publications of this step
PollAnswered(e, status_data, answers, bus) ==
    /\ monitor[e].pc = "poll"
    /\ engine' = [engine EXCEPT
                     ![e].reported_terminal =
                         @ \/ (~status_data.raises
                               /\ status_data.status \in {"completed", "failed"}),
                     ![e].failed_with =
                         IF ~status_data.raises /\ status_data.status = "failed"
                         THEN <<status_data.error>> ELSE @]
    /\ IF status_data.raises
       THEN \* except branch: logged, then asyncio.sleep
            /\ executions' = [executions EXCEPT ![e] = poll_raised(@)]
            /\ monitor' = [monitor EXCEPT ![e].pc = "sleep"]
            /\ UNCHANGED <<router_log, events>>
       ELSE IF status_data.status = "completed"
       THEN LET c == process_completion(settings, executions[e],
                                        status_data, answers, bus)
            IN /\ executions' = [executions EXCEPT ![e] = c.execution]
               /\ router_log' =
                     [router_log EXCEPT
                         ![e] = IF c.routed
                                THEN Append(@, [status |-> executions[e].status,
                                                context_output |->
                                                    RoutedOutput(status_data)[1],
                                                answers |-> answers])
                                ELSE @]
               /\ IF c.raised
                  THEN /\ monitor' = [monitor EXCEPT ![e].pc = "sleep"]
                       /\ events' = [events EXCEPT ![e] = @ \o c.events]
                  ELSE /\ monitor' = [monitor EXCEPT ![e] = MonitorEnds(bus)]
                       /\ events' = [events EXCEPT
                                        ![e] = (@ \o c.events)
                                                  \o <<"emails.completed">>]
       ELSE IF status_data.status = "failed"
       THEN /\ executions' =
                  [executions EXCEPT ![e] = engine_failed(@, status_data)]
            /\ monitor' = [monitor EXCEPT ![e] = MonitorEnds(bus)]
            /\ events' = [events EXCEPT ![e] = Append(@, "emails.completed")]
            /\ UNCHANGED router_log
       ELSE /\ executions' =
                  [executions EXCEPT
                      ![e] = still_running(@, status_data.status)]
            /\ monitor' = [monitor EXCEPT ![e].pc = "sleep"]
            /\ UNCHANGED <<router_log, events>>
    /\ UNCHANGED <<settings, service_vars, router_vars, dag_vars, list_vars,
                   coroutine>>

PollReturns(e, status_data, answers, bus) ==
    /\ PollAnswered(e, status_data, answers, bus)
    /\ UNCHANGED poll_vars

\* PollInterval seconds pass: every sleeping monitor wakes up, and every
\* monitor in its loop is that much further from its start_time (counted up
\* to just past the timeout, beyond which the loop cannot tell)
Tick ==
    /\ \E e \in ExecIds : monitor[e].pc \in {"check", "poll", "sleep"}
    /\ monitor' =
          [e \in ExecIds |->
              IF monitor[e].pc \in {"check", "poll", "sleep"}
              THEN [pc |-> IF monitor[e].pc = "sleep" THEN "check"
                           ELSE monitor[e].pc,
                    elapsed |-> Min(monitor[e].elapsed + PollInterval,
                                    settings.execution_timeout + PollInterval)]
              ELSE monitor[e]]
    /\ UNCHANGED <<settings, service_vars, router_vars, dag_vars, list_vars, poll_vars,
                   executions, coroutine,
                   engine, router_log, events>>

\* Spec follows MaxExecs executions side by side on a bus that takes every
\* event; what the bus answers is varied in SpecMonitor
Next ==
    \/ ReceiveEmail("ok")
    \/ \E e \in ExecIds, ok \in BOOLEAN : BuildDagStep(e, ok)
    \/ \E e \in ExecIds, ok \in BOOLEAN : SubmitReturns(e, ok, "ok")
    \/ \E e \in ExecIds : MonitorCheck(e, "ok")
    \/ \E e \in ExecIds, status_data \in PollResponses :
          \E answers \in ToolAnswers(status_data) :
              PollReturns(e, status_data, answers, "ok")
    \/ Tick

Spec == Init /\ [][Next]_vars

\* ------------------------------------------------------------------------
\* Properties of the orchestrator (Spec)
\* ------------------------------------------------------------------------
Created == DOMAIN executions

\* error messages in which the word "timeout" occurs
MentionsTimeout(error_message) == error_message = <<"Execution timeout">>

\* C1: when the monitor of an execution has ended and no poll ever reported
\* a terminal status (every poll raised or returned pending/running), the
\* execution is failed, its error message contains "timeout", and route was
\* never invoked for it: it has no Actions.
C1_MonitorTimeout ==
    \A e \in Created :
        (monitor[e].pc = "done" /\ ~engine[e].reported_terminal) =>
            /\ executions[e].status = "failed"
            /\ MentionsTimeout(executions[e].error_message)
            /\ router_log[e] = <<>>
            /\ executions[e].actions = <<>>

\* a monitor ended by the timeout: the engine was polled and never reported
\* a terminal status
C1_Witness ==
    \E e \in Created :
        /\ monitor[e].pc = "done" /\ ~engine[e].reported_terminal
        /\ engine[e].dag # <<>>
        /\ executions[e].status = "failed"
        /\ executions[e].completed_at # <<>>

Rank(status) ==
    IF status = "pending" THEN 0 ELSE IF status = "running" THEN 1 ELSE 2

\* C2: in every step, every execution of the ledger stays in the ledger and
\* its status does not decrease under pending < running < {completed,
\* failed, cancelled}.
C2_StatusMonotonic ==
    [][\A e \in Created :
          /\ e \in DOMAIN executions'
          /\ Rank(executions[e].status) <= Rank(executions'[e].status)]_vars

\* two executions that went pending, running, terminal: one completed with
\* Actions, one failed by its monitor
C2_Witness ==
    /\ Len(executions) = 2
    /\ executions[1].status = "completed" /\ monitor[1].pc = "done"
    /\ executions[1].actions # <<>>
    /\ executions[2].status = "failed" /\ monitor[2].pc = "done"

\* C12: in every state between two steps, an execution's completed_at is
\* set if and only if its status is terminal (completed, failed, cancelled).
C12_CompletedAtIffTerminal ==
    \A e \in Created :
        executions[e].completed_at # <<>>
            <=> executions[e].status \in TerminalStatuses

\* one execution failed by the engine and stamped, while another one is
\* running and unstamped
C12_Witness ==
    \E e, f \in Created :
        /\ executions[e].status = "failed" /\ engine[e].reported_terminal
        /\ executions[e].completed_at = Now
        /\ executions[f].status = "running" /\ executions[f].completed_at = <<>>

\* C13: at every invocation of the router for an execution, the execution's
\* status is already completed (never running): the router runs and writes
\* Actions only after the monitor made the execution completed.
C13_RoutedWhenCompleted ==
    \A e \in Created :
        \A i \in 1..Len(router_log[e]) : router_log[e][i].status = "completed"

\* an execution that got its Actions from a call of route made while it was
\* running
C13_Witness ==
    \E e \in Created :
        /\ Len(router_log[e]) = 1 /\ router_log[e][1].status = "running"
        /\ executions[e].actions # <<>>
        /\ executions[e].status = "completed"

\* C14: a completed execution's agent_outputs holds an output for every
\* node of its graph: the monitor stored the per-node outputs before it made
\* the execution completed.
C14_OutputsStored ==
    \A e \in Created :
        executions[e].status = "completed" =>
            \A i \in 1..Len(engine[e].dag.tasks) :
                \E j \in 1..Len(executions[e].agent_outputs) :
                    executions[e].agent_outputs[j].agent_type
                        = engine[e].dag.tasks[i].agent_type

\* a completed execution with Actions, whose graph had five nodes and whose
\* agent_outputs is empty
C14_Witness ==
    \E e \in Created :
        /\ executions[e].status = "completed" /\ executions[e].actions # <<>>
        /\ Len(engine[e].dag.tasks) = 5
        /\ executions[e].agent_outputs = <<>>

\* process_email returned after the POST of the graph failed: the graph was
\* built and posted, and no engine execution id came back
SubmissionFailed(e) ==
    /\ coroutine[e] = "returned"
    /\ engine[e].dag # <<>>
    /\ executions[e].dolphin_execution_id = <<>>

Published(e, event) == \E i \in 1..Len(events[e]) : events[e][i] = event

\* C15: when the submission of the graph fails, process_email returns the
\* execution failed, with an error message carrying the error, and no
\* monitor exists for it: the engine is never polled, nothing is routed and
\* no completion event is published for it.
C15_SubmissionFailure ==
    \A e \in Created :
        SubmissionFailed(e) =>
            /\ executions[e].status = "failed"
            /\ executions[e].error_message = <<"DAG submission failed: error">>
            /\ executions[e].completed_at # <<>>
            /\ monitor[e].pc = "none"
            /\ ~engine[e].reported_terminal
            /\ router_log[e] = <<>> /\ executions[e].actions = <<>>
            /\ ~Published(e, "dolphin.dag.submitted")
            /\ ~Published(e, "emails.completed")

\* a failed submission next to an execution whose monitor polled the engine
\* to the end
C15_Witness ==
    \E e, f \in Created :
        /\ SubmissionFailed(e) /\ executions[e].status = "failed"
        /\ monitor[f].pc = "done" /\ engine[f].reported_terminal

\* C17: every failed execution carries an error message that is neither
\* null nor empty, whichever path made it fail (graph build, submission,
\* failure reported by the engine with or without an error value, timeout).
C17_FailedHasMessage ==
    \A e \in Created :
        executions[e].status = "failed" =>
            /\ executions[e].error_message # <<>>
            /\ executions[e].error_message # <<"">>

\* an execution the engine reported failed, left without an error message
C17_Witness ==
    \E e \in Created :
        /\ executions[e].status = "failed" /\ engine[e].reported_terminal
        /\ monitor[e].pc = "done"
        /\ executions[e].error_message = <<>>

\* C16: whenever route reached a dispatcher for an execution (all
\* dispatchers are enabled), every recommendation of a known kind has its
\* Action on the execution, whatever the tools answered to the other
\* recommendations: completed with the tool's result where the tool
\* answered, failed with the error payload where the tool raised; and the
\* execution is not failed by it: once its monitor has ended it is completed
\* without an error message.
C16_DispatchOutcome ==
    \A e \in Created :
        \A k \in 1..Len(router_log[e]) :
            LET recs == Get(router_log[e][k].context_output.recommendations, <<>>)
                answers == router_log[e][k].answers
                actions == executions[e].actions
            IN (\E j \in 1..Len(actions) :
                   actions[j].action_type \in KnownActionTypes)
               => /\ \A i \in 1..Len(recs) :
                        Get(recs[i].action_type, "None") \in KnownActionTypes
                        => \E j \in 1..Len(actions) :
                              /\ actions[j].rec = i
                              /\ actions[j].action_type = recs[i].action_type[1]
                              /\ IF answers.tools[i] = "ok"
                                 THEN /\ actions[j].status = "completed"
                                      /\ actions[j].result = "ok"
                                 ELSE /\ actions[j].status = "failed"
                                      /\ actions[j].result = "error"
                  /\ executions[e].status # "failed"
                  /\ monitor[e].pc = "done" =>
                        /\ executions[e].status = "completed"
                        /\ executions[e].error_message = <<>>

\* a completed execution whose first dispatched Action failed at its tool
\* and whose later one completed
C16_Witness ==
    \E e \in Created :
        /\ executions[e].status = "completed"
        /\ executions[e].error_message = <<>>
        /\ Len(router_log[e]) = 1
        /\ DOMAIN router_log[e][1].answers.tools = 1..3
        /\ router_log[e][1].answers.tools[2] = "error"
        /\ router_log[e][1].answers.tools[3] = "ok"
        /\ \E i, j \in 1..Len(executions[e].actions) :
              /\ i < j
              /\ executions[e].actions[i].status = "failed"
              /\ executions[e].actions[i].result = "error"
              /\ executions[e].actions[j].status = "completed"
              /\ executions[e].actions[j].result = "ok"

\* ------------------------------------------------------------------------
\* Listing the ledger: specification (SpecList)
\* ------------------------------------------------------------------------
LedgerStatuses == {"running", "completed"}

\* started_at comes from the wall clock (datetime.now), which may repeat a
\* value or step back between two executions
StartTimes == {1, 2, 3}

\* the i-th Execution of a ledger, in a given status, started at a given time
LedgerEntry(i, status, started_at) ==
    [new_execution(i, NoEmail) EXCEPT
        !.dolphin_execution_id = <<i>>,
        !.status = status,
        !.started_at = started_at,
        !.completed_at = IF status \in TerminalStatuses THEN Now ELSE <<>>]

\* self.executions, in insertion order
Ledgers ==
    UNION {{[i \in 1..n |-> LedgerEntry(i, st[i], at[i])] :
               st \in [1..n -> LedgerStatuses], at \in [1..n -> StartTimes]} :
           n \in 0..MaxLedger}

Limits == (0 - 1)..(MaxLedger + 1)

StatusFilters == {<<>>, <<"running">>, <<"completed">>, <<"failed">>}

InitList ==
    /\ settings = MakeSettings(9, <<"b">>, TRUE, TRUE, TRUE,
                               DefaultTimeout, DefaultRetries)
    /\ context_output = [confidence |-> <<>>, risk_assessment |-> <<>>,
                         synthesis |-> <<>>, recommendations |-> <<>>]
    /\ route_result = NoResult
    /\ route_count = 0
    /\ first_call = [kinds |-> <<>>, failed |-> FALSE]
    /\ email = NoEmail
    /\ dag_definition = <<>>
    /\ executions \in Ledgers
    /\ IdleTasks

\* one call of list_executions(limit, status_filter)
ListExecutions ==
    /\ \E limit \in Limits, status_filter \in StatusFilters :
          listing' = [called |-> TRUE, limit |-> limit,
                      status_filter |-> status_filter,
                      result |-> list_executions(executions, limit,
                                                 status_filter)]
    /\ UNCHANGED <<settings, service_vars, router_vars, dag_vars, orchestrator_vars,
                   poll_vars>>

NextList == ListExecutions

SpecList == InitList /\ [][NextList]_vars

\* positions of the ledger that match the status filter of the call
Matching ==
    {i \in 1..Len(executions) :
        listing.status_filter = <<>>
            \/ executions[i].status = listing.status_filter[1]}

Listed == listing.result

\* C19: a call of list_executions with a limit >= 0 returns exactly
\* min(limit, m) executions, m being the number of executions of the ledger
\* that match the status filter (all of them without a filter); each
\* returned execution is a different execution of the ledger and matches the
\* filter; they are ordered most-recently-started first and no matching
\* execution left out started later than a returned one; on an empty ledger
\* the result is empty.
C19_ListExecutions ==
    (listing.called /\ listing.limit >= 0) =>
        /\ Len(Listed) = Min(listing.limit, Cardinality(Matching))
        /\ \A j \in 1..Len(Listed) :
              \E i \in Matching : executions[i] = Listed[j]
        /\ \A j, k \in 1..Len(Listed) :
              j < k => /\ Listed[j].email_id # Listed[k].email_id
                       /\ Listed[j].started_at >= Listed[k].started_at
        /\ \A i \in Matching :
              (\A j \in 1..Len(Listed) : Listed[j] # executions[i])
              => \A j \in 1..Len(Listed) :
                    Listed[j].started_at >= executions[i].started_at
        /\ executions = <<>> => Listed = <<>>

\* three completed executions started one after the other, listed with the
\* filter "completed" and limit 2: the last two, the latest first
C19_Witness ==
    /\ listing.called /\ listing.limit = 2
    /\ listing.status_filter = <<"completed">>
    /\ Len(executions) = 3
    /\ \A i \in 1..3 : /\ executions[i].status = "completed"
                        /\ executions[i].started_at = i
    /\ Listed = <<executions[3], executions[2]>>

\* ------------------------------------------------------------------------
\* Further properties of the orchestrator (Spec)
\* ------------------------------------------------------------------------
\* the kinds of the Actions whose creation was announced for e
AnnouncedActions(e) ==
    SelectSeq(events[e], LAMBDA ev : ev \notin {"emails.received",
                                                "dolphin.dag.submitted",
                                                "emails.completed"})

\* C21: once a poll has reported the engine's status "failed" for an
\* execution, the execution is failed with the error the engine reported,
\* its monitor has ended, and the router was not invoked for it: it has no
\* Actions, no dispatcher was called and no Action was announced.
C21_EngineFailure ==
    \A e \in Created :
        engine[e].failed_with # <<>> =>
            LET reported == engine[e].failed_with[1]
            IN /\ executions[e].status = "failed"
               /\ (reported # <<>> /\ reported # <<JsonNull>>)
                     => executions[e].error_message = reported
               /\ executions[e].completed_at # <<>>
               /\ monitor[e].pc = "done"
               /\ router_log[e] = <<>>
               /\ executions[e].actions = <<>>
               /\ AnnouncedActions(e) = <<>>

\* an execution the engine reported failed with an error text, next to one
\* that was routed
C21_Witness ==
    \E e, f \in Created :
        /\ engine[e].failed_with = << <<"Agent crashed">> >>
        /\ executions[e].error_message = <<"Agent crashed">>
        /\ monitor[e].pc = "done"
        /\ router_log[f] # <<>>

\* C22: no execution is completed without the router having been invoked
\* for it: whenever the monitor observed the engine's status "completed" and
\* made the execution completed, route was called on the synthesis output.
C22_CompletedWasRouted ==
    \A e \in Created :
        executions[e].status = "completed" => router_log[e] # <<>>

\* an execution completed by its monitor for which route was never called
C22_Witness ==
    \E e \in Created :
        /\ executions[e].status = "completed" /\ monitor[e].pc = "done"
        /\ engine[e].reported_terminal
        /\ router_log[e] = <<>> /\ executions[e].actions = <<>>

\* process_email returned for email id because _build_dag raised: no graph
\* was ever handed to the engine
BuildFailed(id) == coroutine[id] = "returned" /\ engine[id].dag = <<>>

\* C23: when the construction of the graph fails for an email, no execution
\* is created: afterwards the ledger holds no execution record for that
\* email.
C23_BuildFailureLeavesNoRecord ==
    \A id \in ExecIds :
        BuildFailed(id) =>
            \A e \in Created : executions[e].email_id # id

\* an email whose graph could not be built and whose execution is in the
\* ledger, failed, while process_email has returned normally
C23_Witness ==
    \E id \in ExecIds :
        /\ BuildFailed(id) /\ id \in Created
        /\ executions[id].email_id = id
        /\ executions[id].status = "failed"
        /\ executions[id].error_message = <<"DAG build failed: error">>
        /\ monitor[id].pc = "none"

\* C26: every status transition of an execution (pending to running,
\* pending to failed, running to completed, running to failed) comes with
\* the publication of a lifecycle event for that execution: the step that
\* changes the status hands an event to _publish_event.
C26_TransitionPublishes ==
    [][\A e \in Created :
          executions'[e].status # executions[e].status
              => /\ Len(events'[e]) > Len(events[e])
                 /\ events'[e][Len(events'[e])]
                       \in {"dolphin.dag.submitted", "emails.completed"}
      ]_vars

\* an execution that went from pending to failed (its graph was not built,
\* or its submission failed) with no event published since
\* "emails.received", next to one whose transitions were published
C26_Witness ==
    \E e, f \in Created :
        /\ executions[e].status = "failed"
        /\ coroutine[e] = "returned"
        /\ monitor[e].pc = "none"
        /\ events[e] = <<"emails.received">>
        /\ executions[f].status = "failed"
        /\ events[f] = <<"emails.received", "dolphin.dag.submitted",
                         "emails.completed">>

\* a step of the monitor of e: its loop goes from the timeout check to the
\* GET, from the GET to the sleep, or ends
MonitorStep(e) ==
    /\ monitor[e].pc \in {"check", "poll"}
    /\ monitor'[e].pc # monitor[e].pc

\* C28: with several executions in flight, a step of the monitor of one
\* execution (the router it calls included) changes the record of that
\* execution only: every other execution of the ledger, its calls of the
\* router and its events are as before; and the record of a running
\* execution changes in steps of its own monitor only.
C28_MonitorsAreIsolated ==
    [][\A e \in Created :
          /\ MonitorStep(e) =>
                \A f \in Created \ {e} :
                    /\ executions'[f] = executions[f]
                    /\ router_log'[f] = router_log[f]
                    /\ events'[f] = events[f]
                    /\ engine'[f] = engine[f]
          /\ (executions[e].status = "running"
              /\ executions'[e] # executions[e]) => MonitorStep(e)
      ]_vars

\* out of submission order: the second execution is completed, with
\* Actions, while the first, submitted before it, is still running and
\* polling
C28_Witness ==
    /\ Len(executions) >= 2
    /\ executions[1].status = "running"
    /\ monitor[1].pc = "poll" /\ monitor[1].elapsed >= PollInterval
    /\ executions[2].status = "completed"
    /\ executions[2].actions # <<>>
    /\ monitor[2].pc = "done"

\* ------------------------------------------------------------------------
\* One execution, its polls counted, on a bus of any behaviour (SpecMonitor)
\* ------------------------------------------------------------------------
\* process_email called for the first email
ReceiveFirst(bus) ==
    /\ executions = <<>>
    /\ ReceiveEmail(bus)

\* more polls than a monitor can make before the shortest timeout: a poll
\* follows a sleep of PollInterval seconds
MaxPolls == MinTimeout \div PollInterval + 2

\* the GET returns, and the answer is counted (up to MaxPolls)
PollReturnsCounted(e, status_data, answers, bus) ==
    /\ PollAnswered(e, status_data, answers, bus)
    /\ polls' = [polls EXCEPT
                    ![e] = [answered |-> Min(@.answered + 1, MaxPolls),
                            raised |-> Min(@.raised
                                           + IF status_data.raises THEN 1 ELSE 0,
                                           MaxPolls)]]

NextMonitor ==
    \/ \E bus \in BusAnswers : ReceiveFirst(bus)
    \/ \E e \in ExecIds, ok \in BOOLEAN : BuildDagStep(e, ok)
    \/ \E e \in ExecIds, ok \in BOOLEAN, bus \in BusAnswers :
          SubmitReturns(e, ok, bus)
    \/ \E e \in ExecIds, bus \in BusAnswers : MonitorCheck(e, bus)
    \/ \E e \in ExecIds, status_data \in PollResponses, bus \in BusAnswers :
          \E answers \in ToolAnswers(status_data) :
              PollReturnsCounted(e, status_data, answers, bus)
    \/ Tick

SpecMonitor == Init /\ [][NextMonitor]_vars

\* C24: a poll that raises leaves the execution running and its record
\* (error message, completion time, actions) as it was, and the monitor
\* sleeps and polls again; an answer "completed" that comes after poll errors
\* still completes the execution; and a monitor all of whose polls raised
\* ends only by the timeout.
C24_PollErrorsTolerated ==
    [][\A e \in Created :
          /\ \A status_data \in PollResponses, bus \in BusAnswers :
                \A answers \in ToolAnswers(status_data) :
                    PollReturnsCounted(e, status_data, answers, bus) =>
                        /\ status_data.raises =>
                              /\ executions[e].status = "running"
                              /\ executions'[e] = executions[e]
                              /\ monitor'[e].pc = "sleep"
                              /\ monitor'[e].elapsed = monitor[e].elapsed
                        /\ ( /\ polls[e].raised > 0
                             /\ ~status_data.raises
                             /\ status_data.status = "completed"
                             /\ Get(status_data.task_results,
                                    [is_mapping |-> TRUE]).is_mapping )
                              => /\ executions'[e].status = "completed"
                                 /\ monitor'[e].pc = "done"
          /\ ( /\ monitor[e].pc # "done" /\ monitor'[e].pc = "done"
               /\ polls'[e].raised = polls'[e].answered )
                => /\ monitor[e].elapsed > settings.execution_timeout
                   /\ executions'[e].status = "failed"
                   /\ MentionsTimeout(executions'[e].error_message)
      ]_vars

\* an execution completed with Actions by the third answer to its polls,
\* the first two polls having raised
C24_Witness ==
    \E e \in Created :
        /\ polls[e] = [answered |-> 3, raised |-> 2]
        /\ executions[e].status = "completed"
        /\ executions[e].actions # <<>>
        /\ monitor[e].pc = "done"

\* C27: the publication of events never affects the pipeline: whatever step
\* the orchestrator takes while the bus takes the event, refuses it or is
\* disconnected, the same step on the same inputs under any other behaviour
\* of the bus leads to the same state: the same Execution (status, error
\* message, actions), the same monitor and the same calls of the router.
C27_PublicationHasNoEffect ==
    [][\A b1, b2 \in BusAnswers :
          /\ ReceiveFirst(b1) => ReceiveFirst(b2)
          /\ \A e \in ExecIds :
                /\ \A ok \in BOOLEAN :
                      SubmitReturns(e, ok, b1) => SubmitReturns(e, ok, b2)
                /\ MonitorCheck(e, b1) => MonitorCheck(e, b2)
                /\ \A status_data \in PollResponses :
                      \A answers \in ToolAnswers(status_data) :
                          PollReturnsCounted(e, status_data, answers, b1)
                              => PollReturnsCounted(e, status_data, answers, b2)
      ]_vars

\* an execution that went through every publication: received, submitted,
\* one Action announced, completed
C27_Witness ==
    \E e \in Created :
        /\ executions[e].status = "completed"
        /\ Len(executions[e].actions) = 1
        /\ events[e] = <<"emails.received", "dolphin.dag.submitted",
                         <<"actions.created", "human_review">>,
                         "emails.completed">>
        /\ monitor[e].pc = "done"

\* ------------------------------------------------------------------------
\* SpecMonitor under fair scheduling (SpecMonitorFair)
\* ------------------------------------------------------------------------
\* the GET ends by an exception
GetRaises ==
    [raises |-> TRUE, status |-> "", error |-> <<>>, task_results |-> <<>>]

\* no tool and no review queue is asked
NoAnswers == [tools |-> <<>>, review_queue |-> "ok"]

\* time advances; the event loop resumes a monitor that is ready to run;
\* and no GET stays pending for ever: the http client is created with
\* timeout=30.0 (line 68), so a GET nothing else answers ends by an
\* exception.  (Every answer is enabled exactly while the GET is pending, so
\* this is the weak fairness of the answers as a whole.)
MonitorFairness ==
    /\ WF_vars(Tick)
    /\ \A e \in ExecIds :
          /\ WF_vars(\E bus \in BusAnswers : MonitorCheck(e, bus))
          /\ WF_vars(PollReturnsCounted(e, GetRaises, NoAnswers, "ok"))

SpecMonitorFair == SpecMonitor /\ MonitorFairness

\* C25: under fair scheduling and advancing time, the monitor of every
\* execution that became running ends, with the execution completed or
\* failed, whatever the polls answer in between.
C25_MonitorTerminates ==
    \A e \in ExecIds :
        (monitor[e].pc = "check")
            ~> (/\ monitor[e].pc = "done"
                /\ executions[e].status \in {"completed", "failed"})

\* a monitor that ended by the timeout after polls that raised and polls
\* that were answered without a terminal status
C25_Witness ==
    \E e \in Created :
        /\ monitor[e].pc = "done"
        /\ executions[e].status = "failed"
        /\ MentionsTimeout(executions[e].error_message)
        /\ ~engine[e].reported_terminal
        /\ polls[e].raised >= 2
        /\ polls[e].answered >= polls[e].raised + 2

\* ------------------------------------------------------------------------
\* Decision Router on recommendations of any shape (SpecRouterFaults)
\* ------------------------------------------------------------------------
\* an element of the recommendation list that is not a mapping (a string,
\* a number, null)
NotAMapping ==
    [action_type |-> <<>>, confidence |-> <<>>,
     is_mapping |-> FALSE, data_is_mapping |-> FALSE]

\* a recommendation whose "data" is not a mapping
BadData(type) ==
    [action_type |-> type, confidence |-> <<>>,
     is_mapping |-> TRUE, data_is_mapping |-> FALSE]

\* the recommendation list is decoded JSON written by a language model:
\* its elements are not validated before route reads them
FaultyRecommendations ==
    {Recommendation(t, <<>>) :
        t \in {<<"create_task">>, <<"schedule_event">>, <<"archive">>}}
        \cup {BadData(<<"create_task">>), BadData(<<"archive">>), NotAMapping}

\* a synthesis output that passes both gates, with any such list
InitRouterFaults ==
    /\ settings = MakeSettings(9, <<"b">>, TRUE, TRUE, TRUE,
                               DefaultTimeout, DefaultRetries)
    /\ context_output \in
          [confidence : {<<9>>}, risk_assessment : {<<>>, <<"medium">>},
           synthesis : {<<>>},
           recommendations :
               {<<r>> : r \in SeqsUpTo(FaultyRecommendations, MaxRecs)}]
    /\ route_result = NoResult
    /\ route_count = 0
    /\ first_call = [kinds |-> <<>>, failed |-> FALSE]
    /\ email = NoEmail
    /\ dag_definition = <<>>
    /\ IdleOrchestrator

SpecRouterFaults == InitRouterFaults /\ [][NextRouter]_vars

TypeOf(recommendation) == Get(recommendation.action_type, "None")

\* the recommendations of known type, in order
KnownRecs == SelectSeq(SynthRecs, LAMBDA r : TypeOf(r) \in KnownActionTypes)

\* those of them whose handling does not raise
HealthyRecs == SelectSeq(KnownRecs, LAMBDA r : r.is_mapping /\ r.data_is_mapping)

\* C29: on the normal path route does not raise, whatever happens while one
\* recommendation is handled: a recommendation whose handling raises gives
\* no Action, its dispatcher is not entered a second time, and every other
\* recommendation is processed, in order.
C29_RecommendationErrorsContained ==
    (Routed /\ NormalPath) =>
        /\ ~route_result.raised
        /\ Kinds(Returned) = [i \in 1..Len(HealthyRecs) |-> TypeOf(HealthyRecs[i])]
        /\ route_result.dispatched
              = [i \in 1..Len(KnownRecs) |-> TypeOf(KnownRecs[i])]

\* route raised on the second element of the list, which is not a mapping,
\* after the tool of the first had been called: no Action is returned
C29_Witness ==
    /\ Routed /\ NormalPath
    /\ Len(SynthRecs) = 2
    /\ SynthRecs[1] = Recommendation(<<"create_task">>, <<>>)
    /\ SynthRecs[2] = NotAMapping
    /\ route_result.raised
    /\ route_result.tool_calls = <<"create_task">>
    /\ Returned = <<>>

\* ------------------------------------------------------------------------
\* Further properties of the Graph Builder (SpecDag)
\* ------------------------------------------------------------------------
\* the naming convention of the consumes map: "<role>_output" for the node
\* "<role>_agent"
OutputKey(task_id) ==
    CASE task_id = "triage_agent" -> "triage_output"
      [] task_id = "vision_agent" -> "vision_output"
      [] task_id = "deadline_agent" -> "deadline_output"
      [] task_id = "task_agent" -> "task_output"
      [] task_id = "context_agent" -> "context_output"

\* the consumes map the convention gives for a dependency list
ConsumesOf(depends_on) ==
    {<<OutputKey(depends_on[k]), depends_on[k]>> : k \in 1..Len(depends_on)}

\* C30: in every built graph the consumes map of every node has exactly one
\* entry per upstream dependency, keyed "<role>_output" and naming that
\* dependency as producer, and no other entry; the synthesis node consumes
\* the document-analysis output exactly when that node is in the graph.
C30_ConsumesFollowsDependencies ==
    Built =>
        /\ \A i \in 1..Len(Tasks) :
              Tasks[i].xcom_pull = ConsumesOf(Tasks[i].depends_on)
        /\ (<<"vision_output", "vision_agent">> \in ContextTask.xcom_pull)
              <=> ("vision_agent" \in TaskIds)

\* a graph for an email with attachments: its document-analysis node
\* depends on the classification node and consumes nothing, while the
\* synthesis node consumes the output of each of its four dependencies
C30_Witness ==
    /\ Built
    /\ \E i \in 1..Len(Tasks) :
          /\ Tasks[i].task_id = "vision_agent"
          /\ Tasks[i].depends_on = <<"triage_agent">>
          /\ Tasks[i].xcom_pull = {}
    /\ ContextTask.xcom_pull = ConsumesOf(ContextTask.depends_on)
    /\ Len(ContextTask.depends_on) = 4

\* ------------------------------------------------------------------------
\* One execution whose synthesis output may be malformed (SpecMonitorFaults)
\* ------------------------------------------------------------------------
\* a synthesis output that passes both gates and whose recommendation list
\* holds, behind a well-formed recommendation, an element that is not a
\* mapping
MalformedOutput ==
    [confidence |-> <<9>>, risk_assessment |-> <<"low">>,
     synthesis |-> << <<"a">> >>,
     recommendations |-> << <<Recommendation(<<"create_task">>, <<>>),
                              NotAMapping>> >>]

\* the status responses of PollResponses, and "completed" with that output
FaultyResponses ==
    PollResponses
        \cup {[raises |-> FALSE, status |-> "completed", error |-> <<>>,
               task_results |-> <<[is_mapping |-> TRUE,
                                   context_agent |-> <<MalformedOutput>>]>>]}

NextMonitorFaults ==
    \/ \E bus \in BusAnswers : ReceiveFirst(bus)
    \/ \E e \in ExecIds, ok \in BOOLEAN : BuildDagStep(e, ok)
    \/ \E e \in ExecIds, ok \in BOOLEAN, bus \in BusAnswers :
          SubmitReturns(e, ok, bus)
    \/ \E e \in ExecIds, bus \in BusAnswers : MonitorCheck(e, bus)
    \/ \E e \in ExecIds, status_data \in FaultyResponses, bus \in BusAnswers :
          \E answers \in ToolAnswers(status_data) :
              PollReturnsCounted(e, status_data, answers, bus)
    \/ Tick

SpecMonitorFaults == Init /\ [][NextMonitorFaults]_vars

\* what the i-th call of route for execution e did
RouteCallOf(e, i) ==
    route(settings, router_log[e][i].context_output, router_log[e][i].answers)

\* C33: for every execution the router is invoked at most once, whatever the
\* polls answer and even when the processing of a completion raises
\* part-way; so no two calls of route for one execution call an external
\* tool.
C33_RoutedAtMostOnce ==
    \A e \in Created :
        /\ Len(router_log[e]) <= 1
        /\ \A i, j \in 1..Len(router_log[e]) :
              i # j => \/ RouteCallOf(e, i).tool_calls = <<>>
                       \/ RouteCallOf(e, j).tool_calls = <<>>

\* an execution failed by the timeout for which route was called on three
\* polls, each call creating the task of the first recommendation again
\* before it raised on the second; the ledger shows no Action
C33_Witness ==
    \E e \in Created :
        /\ executions[e].status = "failed"
        /\ MentionsTimeout(executions[e].error_message)
        /\ Len(router_log[e]) = 3
        /\ \A i \in 1..3 :
              /\ RouteCallOf(e, i).raised
              /\ RouteCallOf(e, i).tool_calls = <<"create_task">>
        /\ executions[e].actions = <<>>

\* the external tools called for execution e by its first n calls of
\* route, in order, and the POSTs these calls made to the review queue
RECURSIVE ToolCallsUpTo(_, _)
ToolCallsUpTo(e, n) ==
    IF n = 0 THEN <<>>
    ELSE ToolCallsUpTo(e, n - 1) \o RouteCallOf(e, n).tool_calls

RECURSIVE ReviewCallsUpTo(_, _)
ReviewCallsUpTo(e, n) ==
    IF n = 0 THEN 0
    ELSE ReviewCallsUpTo(e, n - 1) + RouteCallOf(e, n).review_calls

\* the Actions of the ledger that record a tool call, and those that record
\* a hand-off to the review queue
ToolActions(e) == SelectSeq(executions[e].actions, LAMBDA a : a.result # "none")
ReviewActions(e) == SelectSeq(executions[e].actions, IsReview)

\* C35: no downstream effect is lost from the ledger: once an execution is
\* terminal, completed or failed, every external tool call the router made
\* for it is recorded by an Action of that kind in its action list, and
\* every hand-off to the review queue by a human_review Action.
C35_EffectsAreRecorded ==
    \A e \in Created :
        executions[e].status \in TerminalStatuses =>
            /\ ToolCallsUpTo(e, Len(router_log[e])) = Kinds(ToolActions(e))
            /\ ReviewCallsUpTo(e, Len(router_log[e])) = Len(ReviewActions(e))

\* an execution failed by the timeout whose single call of route created a
\* task and then raised: the task exists in the external tool and the
\* ledger holds no Action
C35_Witness ==
    \E e \in Created :
        /\ executions[e].status = "failed"
        /\ monitor[e].pc = "done"
        /\ Len(router_log[e]) = 1
        /\ ToolCallsUpTo(e, 1) = <<"create_task">>
        /\ router_log[e][1].answers.tools[1] = "ok"
        /\ executions[e].actions = <<>>


\* ------------------------------------------------------------------------
\* Further properties of the Decision Router (SpecRouter)
\* ------------------------------------------------------------------------
\* a configured keyword that is not the empty string occurs in the narrative
NonEmptyKeywordOccurs ==
    \E k \in 1..Len(ConfiguredKeywords) :
        /\ ConfiguredKeywords[k] # <<>>
        /\ OccursIgnoringCase(ConfiguredKeywords[k], SynthNarrative)

HasEmptyKeyword ==
    \E k \in 1..Len(ConfiguredKeywords) : ConfiguredKeywords[k] = <<>>

\* C36: the keyword scan reports high risk only when a non-empty configured
\* keyword occurs in the lower-cased narrative: an output that passes the
\* confidence gate, whose risk is neither high nor critical and whose
\* narrative holds no non-empty configured keyword, reaches normal
\* recommendation routing, also when the keyword configuration is empty or
\* has an empty entry.
C36_EmptyKeywordIgnored ==
    (Routed /\ ConfidenceGatePasses /\ SynthRisk \notin {"high", "critical"}
        /\ ~NonEmptyKeywordOccurs) =>
        /\ ~HasReview(Returned)
        /\ Len(Returned) = Len(KnownPositions)

\* an empty keyword configuration, a high-confidence output with risk low, a
\* narrative and recommendations of known types: route returned the
\* high-risk review Action and entered no dispatcher
C36_Witness ==
    /\ Routed /\ ConfidenceGatePasses /\ SynthRisk = "low"
    /\ settings.high_risk_keywords = <<>>
    /\ HasEmptyKeyword /\ ~NonEmptyKeywordOccurs
    /\ SynthNarrative # <<>> /\ HasKnownRec
    /\ HighRiskOutcome(Returned)
    /\ route_result.dispatched = <<>>


\* C37: route returns the low-confidence review outcome exactly when the
\* synthesis confidence, 0.0 when the output carries none, is strictly below
\* the threshold: an output without a confidence is always sent to review,
\* and a confidence equal to the threshold passes on to the risk gate.
C37_ConfidenceGateBoundary ==
    Routed =>
        /\ LowConfidenceOutcome(Returned) <=>
               SynthConfidence < settings.confidence_threshold
        /\ context_output.confidence = <<>> =>
               LowConfidenceOutcome(Returned) /\ ~route_result.risk_evaluated
        /\ SynthConfidence = settings.confidence_threshold =>
               route_result.risk_evaluated /\ ~LowConfidenceOutcome(Returned)

\* a confidence equal to the threshold reached the risk gate and normal
\* routing, and its recommendations were dispatched
C37_Witness ==
    /\ Routed /\ context_output.confidence # <<>>
    /\ SynthConfidence = settings.confidence_threshold
    /\ route_result.risk_evaluated
    /\ Len(Returned) >= 1 /\ RecommendationOutcome(Returned)


\* the enable flag of the tool behind an action kind
ToolEnabled(kind) ==
    IF kind = "create_task" THEN settings.mcp_todoist_enabled
    ELSE IF kind = "schedule_event" THEN settings.mcp_gcal_enabled
    ELSE settings.mcp_twilio_enabled

KindAt(i) == Get(SynthRecs[i].action_type, "None")

InSeq(x, seq) == \E i \in 1..Len(seq) : seq[i] = x

\* C38: on the normal path a recommendation whose tool is disabled enters
\* its dispatcher, no external call is made for that kind, and its Action is
\* returned in the list like an executed one, with status pending and no
\* result.
C38_DisabledToolSkipped ==
    (Routed /\ NormalPath) =>
        \A i \in 1..Len(SynthRecs) :
            (KindAt(i) \in KnownActionTypes /\ ~ToolEnabled(KindAt(i))) =>
                /\ InSeq(KindAt(i), route_result.dispatched)
                /\ ~InSeq(KindAt(i), route_result.tool_calls)
                /\ \E j \in 1..Len(Returned) :
                      /\ Returned[j].rec = i
                      /\ Returned[j].action_type = KindAt(i)
                      /\ Returned[j].status = "pending"
                      /\ Returned[j].result = "none"

\* a recommendation for a disabled tool followed by one for an enabled tool
\* that answered: both Actions are returned, the first pending, the second
\* completed, and only the second tool was called
C38_Witness ==
    /\ Routed /\ NormalPath /\ Len(SynthRecs) = 2 /\ Len(Returned) = 2
    /\ KindAt(1) \in KnownActionTypes /\ ~ToolEnabled(KindAt(1))
    /\ KindAt(2) \in KnownActionTypes /\ ToolEnabled(KindAt(2))
    /\ Returned[1].status = "pending" /\ Returned[1].result = "none"
    /\ Returned[2].status = "completed"
    /\ route_result.tool_calls = <<KindAt(2)>>


\* ------------------------------------------------------------------------
\* Agents (agents/base/agent_contract.py, agents/context/context_agent.py,
\* shared/clients/llm_client.py)
\* ------------------------------------------------------------------------
MaxAgentRuns == 2
MaxClock == 1

SessionIds == {"s1", "s2"}

\* The configuration objects a caller may hand to ContextAgent.
\* fallback_allowed is an optional attribute: LLMConfig as declared in
\* shared/llm_config.py has no such field (<<>>), a configuration that
\* carries it has it True or False.  fallback_configured: fallback_provider
\* and fallback_model are both set
AgentConfigs ==
    [fallback_allowed : {<<>>, <<TRUE>>, <<FALSE>>},
     fallback_configured : BOOLEAN]

\* the input of one execution (a ContextInput)
AgentInputs == [session_id : SessionIds, checkpoint_enabled : BOOLEAN]

\* ContextAgent.__init__ followed by BaseAgent.__init__: reading
\* config.fallback_allowed raises AttributeError when the attribute is
\* missing, a true value raises ValueError, otherwise the instance exists
\* with an empty checkpoints list.  The record keeps the configuration that
\* was handed over also when the construction was rejected
ContextAgent_init(config, now) ==
    IF config.fallback_allowed = <<>>
    THEN [NoAgent EXCEPT !.state = "rejected", !.error = "AttributeError",
                         !.config = config, !.now = now]
    ELSE IF config.fallback_allowed[1]
    THEN [NoAgent EXCEPT !.state = "rejected", !.error = "ValueError",
                         !.config = config, !.now = now]
    ELSE [NoAgent EXCEPT !.state = "ready", !.config = config, !.now = now]

\* Variant of LLMClient.generate that tries the fallback client whenever one
\* is configured
generate_fallback_unchecked(config, primary, fallback) ==
    IF primary = "ok"
    THEN [raised |-> FALSE, model_used |-> "primary"]
    ELSE IF config.fallback_configured /\ fallback = "ok"
    THEN [raised |-> FALSE, model_used |-> "fallback"]
    ELSE [raised |-> TRUE, model_used |-> "none"]

\* LLMClient.generate: the primary provider answers or raises; when it
\* raises the error is re-raised unless config.fallback_allowed, and only
\* then the fallback client (built in LLMClient.__init__ when a fallback
\* provider and model are configured) is tried
generate(config, primary, fallback) ==
    IF primary = "ok"
    THEN [raised |-> FALSE, model_used |-> "primary"]
    ELSE IF config.fallback_allowed = <<>> \/ ~config.fallback_allowed[1]
    THEN [raised |-> TRUE, model_used |-> "none"]
    ELSE IF config.fallback_configured /\ fallback = "ok"
    THEN [raised |-> FALSE, model_used |-> "fallback"]
    ELSE [raised |-> TRUE, model_used |-> "none"]

\* BaseAgent._create_checkpoint: the identifier is built from the session
\* id, the checkpoint name and the second of the clock, and appended to
\* self.checkpoints
create_checkpoint(checkpoints, input_data, checkpoint_name, now) ==
    IF input_data.checkpoint_enabled
    THEN Append(checkpoints, <<input_data.session_id, checkpoint_name, now>>)
    ELSE checkpoints

\* ContextAgent.process on a ContextInput: checkpoint, model call (an
\* exception of the client is re-raised), parsing of the answer (a parse
\* error is re-raised), checkpoint.  The Qdrant helpers swallow their errors
process(self, input_data, primary, fallback, parse) ==
    LET started == create_checkpoint(self.checkpoints, input_data,
                                     "context_analysis_start", self.now)
        response == generate(self.config, primary, fallback)
    IN IF response.raised
       THEN [raised |-> TRUE, error |-> "Context Agent CRITICAL FAILURE",
             model_used |-> "none", checkpoints |-> started]
       ELSE IF parse # "ok"
       THEN [raised |-> TRUE, error |-> "Context Agent output parsing failed",
             model_used |-> "none", checkpoints |-> started]
       ELSE [raised |-> FALSE, error |-> "none",
             model_used |-> response.model_used,
             checkpoints |-> create_checkpoint(started, input_data,
                                 "context_analysis_complete", self.now)]

\* BaseAgent.execute: process under try/except.  Either way the AgentResult
\* carries self.checkpoints, the list of the instance.  Besides the fields
\* of AgentResult the record keeps what the call was given (input_data, the
\* answer of the primary model) and the identifiers created during this call
execute(self, input_data, primary, fallback, parse) ==
    LET output == process(self, input_data, primary, fallback, parse)
        checkpoints == IF output.raised THEN output.checkpoints
                       ELSE create_checkpoint(output.checkpoints, input_data,
                                              "context_complete", self.now)
    IN [self EXCEPT
          !.checkpoints = checkpoints,
          !.results = Append(@,
              [success |-> ~output.raised, error |-> output.error,
               model_used |-> output.model_used,
               checkpoints_created |-> checkpoints,
               created |-> SubSeq(checkpoints, Len(self.checkpoints) + 1,
                                  Len(checkpoints)),
               input_data |-> input_data, primary |-> primary])]

core_vars ==
    <<settings, router_vars, dag_vars, orchestrator_vars, list_vars, poll_vars>>

\* ContextAgent(config): a new instance replaces the one held
ConstructAgent(config) ==
    /\ agent' = ContextAgent_init(config, agent.now)
    /\ UNCHANGED <<core_vars, simple_executions, chat>>

\* one call of execute on the instance
ExecuteAgent(input_data, primary, fallback, parse) ==
    /\ agent.state = "ready"
    /\ Len(agent.results) < MaxAgentRuns
    /\ agent' = execute(agent, input_data, primary, fallback, parse)
    /\ UNCHANGED <<core_vars, simple_executions, chat>>

\* a second passes
AgentClockTick ==
    /\ agent.now < MaxClock
    /\ agent' = [agent EXCEPT !.now = @ + 1]
    /\ UNCHANGED <<core_vars, simple_executions, chat>>

NextAgent ==
    \/ \E config \in AgentConfigs : ConstructAgent(config)
    \/ \E input_data \in AgentInputs, primary \in {"ok", "error"},
          fallback \in {"ok", "error"}, parse \in {"ok", "error"} :
          ExecuteAgent(input_data, primary, fallback, parse)
    \/ AgentClockTick

SpecAgent == Init /\ [][NextAgent]_vars

\* C31: the synthesis stage has no fallback path: an instance never exists
\* under a configuration that allows fallback (its construction is
\* rejected), and every execution whose model call failed returns a failed
\* AgentResult with an error, never a result produced by a fallback model.
C31_NoFallbackPath ==
    /\ (agent.state # "none" /\ agent.config.fallback_allowed = <<TRUE>>) =>
           agent.state = "rejected" /\ agent.error = "ValueError"
    /\ \A k \in 1..Len(agent.results) :
           /\ agent.results[k].model_used # "fallback"
           /\ agent.results[k].primary = "error" =>
                 /\ ~agent.results[k].success
                 /\ agent.results[k].error # "none"

\* a fallback provider is configured and not allowed, the model failed in
\* one execution and answered in the next: the first result is a failure,
\* the second a success of the primary model
C31_Witness ==
    /\ agent.state = "ready" /\ agent.config.fallback_configured
    /\ Len(agent.results) = 2
    /\ agent.results[1].primary = "error" /\ ~agent.results[1].success
    /\ agent.results[2].success /\ agent.results[2].model_used = "primary"

\* the identifiers of a sequence of checkpoints
Ids(checkpoints) == {checkpoints[i] : i \in 1..Len(checkpoints)}

\* C32: the checkpoint identifiers reported with a result are those created
\* during that execution: a later result of the same instance lists none of
\* the identifiers created during an earlier execution.
C32_CheckpointsOfThisExecution ==
    \A j \in 1..Len(agent.results) : \A i \in 1..(j - 1) :
        Ids(agent.results[j].checkpoints_created)
            \cap Ids(agent.results[i].created) = {}

\* two executions for different sessions, both with checkpoints enabled: the
\* second result lists the identifiers of the first session
C32_Witness ==
    /\ Len(agent.results) = 2
    /\ agent.results[1].input_data.session_id = "s1"
    /\ agent.results[2].input_data.session_id = "s2"
    /\ agent.results[1].created # <<>>
    /\ \E c \in Ids(agent.results[2].checkpoints_created) : c[1] = "s1"

\* ------------------------------------------------------------------------
\* SimpleOrchestrator (aubs/src/simple_orchestrator.py)
\* ------------------------------------------------------------------------
MaxSimple == 3

\* the member names of shared.models.EventType
EventTypeMembers ==
    {"EMAIL_RECEIVED", "EMAIL_PROCESSING", "EMAIL_COMPLETED", "DAG_SUBMITTED",
     "TASK_STARTED", "TASK_COMPLETED", "TASK_FAILED", "AGENT_COMPLETE",
     "UITARS_CHECKPOINT", "ACTION_CREATED"}

\* EventType.<member>: the attribute access raises AttributeError for a name
\* that is not a member of the enum
EventType(member) ==
    [raised |-> member \notin EventTypeMembers, member |-> member]

\* process_email up to its first await: the Execution is created pending and
\* stored, and the start event is handed to _publish_event.  trace lists
\* the values execution.status has been given, in order
simple_new_execution ==
    [status |-> "pending", error_message |-> <<>>, completed_at |-> FALSE,
     trace |-> <<"pending">>, pc |-> "publishing", analysis |-> "none",
     events |-> <<>>]

\* _publish_event returned: the event was sent if the bus took it (a missing
\* connection and a publish error leave no trace); the try block starts,
\* the status becomes running and analyzer.analyze is awaited
simple_running(execution, bus) ==
    [execution EXCEPT
        !.events = IF publish_event(bus).sent
                   THEN Append(@, "EMAIL_RECEIVED") ELSE @,
        !.status = "running", !.trace = Append(@, "running"),
        !.pc = "analyzing"]

\* the except clause of process_email (lines 139-143)
simple_failed(execution, message) ==
    [execution EXCEPT
        !.status = "failed", !.trace = Append(@, "failed"),
        !.error_message = <<message>>, !.completed_at = TRUE,
        !.pc = "returned"]

\* analyzer.analyze returned or raised: the rest of process_email.  After a
\* result the execution is set completed and stamped, then the arguments of
\* the second _publish_event are evaluated, still inside the try:
\* EventType.EXECUTION_COMPLETED is looked up first
simple_analyzed(execution, analysis, bus) ==
    IF analysis = "ok"
    THEN LET done == [execution EXCEPT
                         !.analysis = analysis,
                         !.status = "completed",
                         !.trace = Append(@, "completed"),
                         !.completed_at = TRUE]
             event_type == EventType("EXECUTION_COMPLETED")
         IN IF event_type.raised
            THEN simple_failed(done, "Analysis failed: EXECUTION_COMPLETED")
            ELSE [done EXCEPT
                     !.events = IF publish_event(bus).sent
                                THEN Append(@, event_type.member) ELSE @,
                     !.pc = "returned"]
    ELSE simple_failed([execution EXCEPT !.analysis = analysis],
                       "Analysis failed: error")

SimpleReceiveEmail ==
    /\ Len(simple_executions) < MaxSimple
    /\ simple_executions' = Append(simple_executions, simple_new_execution)
    /\ UNCHANGED <<core_vars, agent, chat>>

SimplePublished(i, bus) ==
    /\ i <= Len(simple_executions)
    /\ simple_executions[i].pc = "publishing"
    /\ simple_executions' =
          [simple_executions EXCEPT ![i] = simple_running(@, bus)]
    /\ UNCHANGED <<core_vars, agent, chat>>

SimpleAnalyzed(i, analysis, bus) ==
    /\ i <= Len(simple_executions)
    /\ simple_executions[i].pc = "analyzing"
    /\ simple_executions' =
          [simple_executions EXCEPT ![i] = simple_analyzed(@, analysis, bus)]
    /\ UNCHANGED <<core_vars, agent, chat>>

NextSimple ==
    \/ SimpleReceiveEmail
    \/ \E i \in 1..MaxSimple, bus \in BusAnswers :
          SimplePublished(i, bus)
    \/ \E i \in 1..MaxSimple, analysis \in {"ok", "error"},
          bus \in BusAnswers : SimpleAnalyzed(i, analysis, bus)

SpecSimple == Init /\ [][NextSimple]_vars

\* C34: a terminal status is absorbing in SimpleOrchestrator: the status of
\* an execution never changes once it is completed or failed, and an
\* execution whose analysis succeeded is returned completed.
C34_TerminalIsAbsorbing ==
    \A i \in 1..Len(simple_executions) :
        LET execution == simple_executions[i]
        IN /\ (execution.pc = "returned" /\ execution.analysis = "ok") =>
                  execution.status = "completed"
           /\ \A k \in 1..(Len(execution.trace) - 1) :
                  execution.trace[k] \in TerminalStatuses =>
                      execution.trace[k + 1] = execution.trace[k]

\* the analysis succeeded, and process_email returned the execution failed
\* after it had been completed
C34_Witness ==
    \E i \in 1..Len(simple_executions) :
        /\ simple_executions[i].pc = "returned"
        /\ simple_executions[i].analysis = "ok"
        /\ simple_executions[i].trace =
               <<"pending", "running", "completed", "failed">>
        /\ simple_executions[i].status = "failed"
        /\ simple_executions[i].error_message # <<>>


\* ------------------------------------------------------------------------
\* ChatService (aubs/src/chat.py)
\* ------------------------------------------------------------------------
MaxChats == 2

\* uuid4 never repeats and never draws an identifier a caller made up: the
\* identifiers a caller can name are 0, which create_session never draws,
\* and those drawn so far (their sessions may have been deleted)
KnownUuids(service) == 0..(service.next_id - 1)

\* ChatService.create_session: ChatSession() draws a new id; the session and
\* an empty message list are stored under it
create_session(service) ==
    [service |-> [service EXCEPT !.sessions[service.next_id] = <<[message_count |-> 0]>>,
                                 !.messages[service.next_id] = << <<>> >>,
                                 !.next_id = @ + 1],
     id |-> service.next_id]

\* ChatService.delete_session
delete_session(service, session_id) ==
    IF service.sessions[session_id] # <<>>
    THEN [service EXCEPT !.sessions[session_id] = <<>>,
                         !.messages[session_id] = <<>>]
    ELSE service

\* ChatService.chat up to its first suspension: get or create the session,
\* count the message on it, append the user message to
\* self.messages[session_id] (KeyError when that key is absent).  The call
\* is logged with the id of the session it used
chat_start(service, session_id, message) ==
    LET found == service.sessions[session_id] # <<>>
        made == IF found THEN [service |-> service, id |-> session_id]
                ELSE create_session(service)
        counted == [made.service EXCEPT
                       !.sessions[made.id] = <<[message_count |->
                                                   @[1].message_count + 1]>>]
        call == [session_id |-> session_id, used |-> made.id,
                 created |-> ~found, pc |-> "context"]
    IN IF counted.messages[session_id] = <<>>
       THEN [counted EXCEPT !.calls = Append(@, [call EXCEPT !.pc = "raised"])]
       ELSE [counted EXCEPT
                !.messages[session_id] =
                    << Append(@[1], [role |-> "user", content |-> message]) >>,
                !.calls = Append(@, call)]

\* chat after the operational context and the system prompt were built: the
\* conversation is read from self.messages[session_id], outside the try
chat_context_built(service, k) ==
    IF service.messages[service.calls[k].session_id] = <<>>
    THEN [service EXCEPT !.calls[k].pc = "raised"]
    ELSE [service EXCEPT !.calls[k].pc = "calling"]

\* chat after the model answered or raised: the assistant message is
\* appended inside the try; every exception there ends in the error reply
chat_answered(service, k, llm) ==
    LET session_id == service.calls[k].session_id
    IN IF llm = "ok" /\ service.messages[session_id] # <<>>
       THEN [service EXCEPT
                !.messages[session_id] =
                    << Append(@[1], [role |-> "assistant", content |-> "r"]) >>,
                !.calls[k].pc = "done"]
       ELSE [service EXCEPT !.calls[k].pc = "error_reply"]

CreateSession ==
    /\ chat.next_id <= MaxSessionIds
    /\ chat' = create_session(chat).service
    /\ UNCHANGED <<core_vars, agent, simple_executions>>

DeleteSession(session_id) ==
    /\ session_id \in KnownUuids(chat)
    /\ chat' = delete_session(chat, session_id)
    /\ UNCHANGED <<core_vars, agent, simple_executions>>

ChatStart(session_id, message) ==
    /\ session_id \in KnownUuids(chat)
    /\ Len(chat.calls) < MaxChats
    /\ chat.sessions[session_id] # <<>> \/ chat.next_id <= MaxSessionIds
    /\ chat' = chat_start(chat, session_id, message)
    /\ UNCHANGED <<core_vars, agent, simple_executions>>

ChatContextBuilt(k) ==
    /\ k <= Len(chat.calls)
    /\ chat.calls[k].pc = "context"
    /\ chat' = chat_context_built(chat, k)
    /\ UNCHANGED <<core_vars, agent, simple_executions>>

ChatAnswered(k, llm) ==
    /\ k <= Len(chat.calls)
    /\ chat.calls[k].pc = "calling"
    /\ chat' = chat_answered(chat, k, llm)
    /\ UNCHANGED <<core_vars, agent, simple_executions>>

NextChat ==
    \/ CreateSession
    \/ \E session_id \in Uuids : DeleteSession(session_id)
    \/ \E session_id \in Uuids : ChatStart(session_id, "m")
    \/ \E k \in 1..MaxChats : ChatContextBuilt(k)
    \/ \E k \in 1..MaxChats, llm \in {"ok", "error"} : ChatAnswered(k, llm)

SpecChat == Init /\ [][NextChat]_vars

Sessions(service) == {id \in Uuids : service.sessions[id] # <<>>}

\* C39: chat gets or creates its session: when chat(session_id, message)
\* has run up to its first suspension, a session with that id exists, the
\* user message is the last of that id's history, and no session under
\* another id has been created; this for every id, also one never created
\* or deleted before the call.
C39_ChatGetsOrCreates ==
    [][\A session_id \in Uuids :
          ChatStart(session_id, "m") =>
              /\ session_id \in Sessions(chat')
              /\ chat'.messages[session_id] # <<>>
              /\ chat'.messages[session_id][1] # <<>>
              /\ chat'.messages[session_id][1]
                     [Len(chat'.messages[session_id][1])].role = "user"
              /\ Sessions(chat') \ Sessions(chat) \subseteq {session_id}]_vars

\* chat was called with the id of a deleted session: it raised, a session
\* exists under another id with one message counted and no message stored,
\* and no session exists under the id of the call
C39_Witness ==
    \E k \in 1..Len(chat.calls) :
        LET call == chat.calls[k]
        IN /\ call.pc = "raised" /\ call.created
           /\ call.session_id # 0
           /\ call.used # call.session_id
           /\ call.session_id \notin Sessions(chat)
           /\ call.used \in Sessions(chat)
           /\ chat.sessions[call.used][1].message_count = 1
           /\ chat.messages[call.used] = << <<>> >>

====
